---- MODULE Spec2Model ----
(***************************************************************************)
(* A model of the NachOS kernel core of this repository:                   *)
(*   - address spaces (userprog/addrspace.cc): frame allocation in Load,   *)
(*     release in the destructor, Translate;                               *)
(*   - the three-level feedback scheduler (threads/scheduler.cc):          *)
(*     PutToReady, ScheduleNext, Aging, CheckPreempt, Run;                 *)
(*   - the file system (filesys/filesys.cc, filehdr.cc, directory.cc):     *)
(*     Create, CreateSubDir, Open, Remove, RemoveDir, RecurRemove.         *)
(* Every subsystem has its own specification over the shared variables;    *)
(* the variables of the other subsystems stay at their initial values.     *)
(***************************************************************************)
EXTENDS Integers, Sequences, FiniteSets, TLC

(***************************************************************************)
(* Bounds of the model.  The machine's sizes (machine.h, addrspace.h) are  *)
(* scaled down: the code is parametric in them.                            *)
(***************************************************************************)
NumPhysPages == 3
PageSize == 2
UserStackSize == 1
MaxSpaces == 2
MaxSegBytes == 2
MaxLoads == 2
MaxTranslates == 2
\* The largest sum of segment sizes of an image whose loading is examined
\* byte by byte (SpecLoad): with PageSize 2, a segment of 2 bytes at an odd
\* address lies on two pages.
MaxLoadBytes == 3

MemorySize == NumPhysPages * PageSize
\* The modulus of unsigned int arithmetic.  TLC's integers are 32-bit signed, so the
\* word is modelled with 30 bits: a negative product still wraps far above MemorySize.
WordMod == 1073741824

Spaces == 1..MaxSpaces
Frames == 0..(NumPhysPages - 1)
NONE == 0

Min(a, b) == IF a < b THEN a ELSE b

divRoundUp(n, s) == (n + s - 1) \div s

(***************************************************************************)
(* NOFF headers the loader is given: segment sizes and virtual addresses.  *)
(* The segments are laid out one after the other from address 0, as        *)
(* coff2noff writes them: code, read-only data, initialised data,          *)
(* uninitialised data.  Every segment lies inside the address space.       *)
(***************************************************************************)
\* The segments' bytes follow the NOFF header in the file, in the order of
\* their addresses; sizeof(NoffHeader) is scaled to one byte.
NoffHeaderSize == 1

Seg(sz, va) == [size |-> sz, virtualAddr |-> va, inFileAddr |-> NoffHeaderSize + va]

HeadersOf(maxBytes, maxReadonly) ==
  { [code |-> Seg(c, 0), readonlyData |-> Seg(r, c), initData |-> Seg(d, c + r),
     uninitData |-> Seg(u, c + r + d)] :
       <<c, r, d, u>> \in { q \in (0..maxBytes) \X (0..maxReadonly) \X (0..maxBytes) \X (0..1) :
                               q[1] + q[2] + q[3] + q[4] <= maxBytes } }

NoffHeaders == HeadersOf(MaxSegBytes, 1)

\* The images of SpecLoad: no uninitialised data, so that every byte but the
\* stack's comes from the file.
LoadHeaders == {h \in HeadersOf(MaxLoadBytes, MaxLoadBytes) : h.uninitData.size = 0}

\* The byte at position p of the executable that address space e loads:
\* never 0, and different for different executables and positions.
FileByte(e, p) == e * (NoffHeaderSize + MaxLoadBytes + 1) + p + 1

ImageSize(h) ==
  h.code.size + h.readonlyData.size + h.initData.size + h.uninitData.size + UserStackSize

VARIABLES
  FrameTable,      \* kernel->FrameTable: frame -> 1 (free) or 0 (used)
  FreeFrame,       \* kernel->FreeFrame
  asState,         \* per address space: "none", "new" (constructed), "loaded"
  numPages,        \* AddrSpace::numPages
  pageTable,       \* AddrSpace::pageTable, a sequence indexed by vpn + 1
  handlerReturns,  \* whether ExceptionHandler returns to its caller or stops the kernel
  halted,          \* the kernel has stopped (failed ASSERT, or the handler stopped it)
  loadCalls,       \* the number of Load calls so far
  translateCalls,  \* the number of Translate calls from outside Load so far
  claimed,         \* per address space: the frames its Load marked used (lines 160-170)
  mainMemory,      \* kernel->machine->mainMemory: physical address -> byte
  memLast          \* the last address-space operation and what it returned

memVars == <<FrameTable, FreeFrame, asState, numPages, pageTable, handlerReturns,
             halted, loadCalls, translateCalls, claimed, mainMemory, memLast>>

(***************************************************************************)
(* A page-table entry.  virtualPage and valid are written by Load and read *)
(* by nothing in addrspace.cc; they are kept for initialised entries.      *)
(* An entry that new[] left uninitialised holds indeterminate values.      *)
(***************************************************************************)
InitEntry(idx, frame) ==
  [virtualPage |-> idx, physicalPage |-> frame, valid |-> TRUE,
   use |-> FALSE, dirty |-> FALSE, readOnly |-> FALSE]

GarbageEntries ==
  [virtualPage : {-1}, physicalPage : (-1)..NumPhysPages, valid : {FALSE},
   use : BOOLEAN, dirty : BOOLEAN, readOnly : BOOLEAN]

(***************************************************************************)
(* AddrSpace::Translate as a function of the page table: the exception,    *)
(* the physical address, the page table after the call, and whether the    *)
(* assertion paddr < MemorySize failed.  paddr is an unsigned int.         *)
(***************************************************************************)
TranslateMutNoDirty(pt, np, vaddr, isReadWrite) ==
  LET vpn == vaddr \div PageSize
      offset == vaddr % PageSize
  IN  IF vpn >= np
        THEN [exc |-> "AddressErrorException", paddr |-> -1, pt |-> pt, assertFail |-> FALSE]
      ELSE IF isReadWrite /\ pt[vpn + 1].readOnly
        THEN [exc |-> "ReadOnlyException", paddr |-> -1, pt |-> pt, assertFail |-> FALSE]
      ELSE IF pt[vpn + 1].physicalPage >= NumPhysPages
        THEN [exc |-> "BusErrorException", paddr |-> -1, pt |-> pt, assertFail |-> FALSE]
      ELSE LET pa == (pt[vpn + 1].physicalPage * PageSize + offset) % WordMod
               pt1 == [pt EXCEPT ![vpn + 1].use = TRUE]
           IN  [exc |-> "NoException", paddr |-> pa, pt |-> pt1,
                assertFail |-> ~(pa < MemorySize)]

TranslateMutBusFirst(pt, np, vaddr, isReadWrite) ==
  LET vpn == vaddr \div PageSize
      offset == vaddr % PageSize
  IN  IF vpn >= np
        THEN [exc |-> "AddressErrorException", paddr |-> -1, pt |-> pt, assertFail |-> FALSE]
      ELSE IF pt[vpn + 1].physicalPage >= NumPhysPages
        THEN [exc |-> "BusErrorException", paddr |-> -1, pt |-> pt, assertFail |-> FALSE]
      ELSE IF isReadWrite /\ pt[vpn + 1].readOnly
        THEN [exc |-> "ReadOnlyException", paddr |-> -1, pt |-> pt, assertFail |-> FALSE]
      ELSE LET pa == (pt[vpn + 1].physicalPage * PageSize + offset) % WordMod
               pt1 == [pt EXCEPT ![vpn + 1].use = TRUE]
               pt2 == IF isReadWrite THEN [pt1 EXCEPT ![vpn + 1].dirty = TRUE] ELSE pt1
           IN  [exc |-> "NoException", paddr |-> pa, pt |-> pt2,
                assertFail |-> ~(pa < MemorySize)]

TranslateMutEarlyUse(pt, np, vaddr, isReadWrite) ==
  LET vpn == vaddr \div PageSize
      offset == vaddr % PageSize
  IN  IF vpn >= np
        THEN [exc |-> "AddressErrorException", paddr |-> -1, pt |-> pt, assertFail |-> FALSE]
      ELSE LET ptu == [pt EXCEPT ![vpn + 1].use = TRUE]
           IN  IF isReadWrite /\ pt[vpn + 1].readOnly
                 THEN [exc |-> "ReadOnlyException", paddr |-> -1, pt |-> ptu,
                       assertFail |-> FALSE]
               ELSE IF pt[vpn + 1].physicalPage >= NumPhysPages
                 THEN [exc |-> "BusErrorException", paddr |-> -1, pt |-> ptu,
                       assertFail |-> FALSE]
               ELSE LET pa == (pt[vpn + 1].physicalPage * PageSize + offset) % WordMod
                        pt2 == IF isReadWrite THEN [ptu EXCEPT ![vpn + 1].dirty = TRUE]
                                              ELSE ptu
                    IN  [exc |-> "NoException", paddr |-> pa, pt |-> pt2,
                         assertFail |-> ~(pa < MemorySize)]

Translate(pt, np, vaddr, isReadWrite) ==
  LET vpn == vaddr \div PageSize
      offset == vaddr % PageSize
  IN  IF vpn >= np
        THEN [exc |-> "AddressErrorException", paddr |-> -1, pt |-> pt, assertFail |-> FALSE]
      ELSE IF isReadWrite /\ pt[vpn + 1].readOnly
        THEN [exc |-> "ReadOnlyException", paddr |-> -1, pt |-> pt, assertFail |-> FALSE]
      ELSE IF pt[vpn + 1].physicalPage >= NumPhysPages
        THEN [exc |-> "BusErrorException", paddr |-> -1, pt |-> pt, assertFail |-> FALSE]
      ELSE LET pa == (pt[vpn + 1].physicalPage * PageSize + offset) % WordMod
               pt1 == [pt EXCEPT ![vpn + 1].use = TRUE]
               pt2 == IF isReadWrite THEN [pt1 EXCEPT ![vpn + 1].dirty = TRUE] ELSE pt1
           IN  [exc |-> "NoException", paddr |-> pa, pt |-> pt2,
                assertFail |-> ~(pa < MemorySize)]

(***************************************************************************)
(* ExceptionHandler (userprog/exception.cc) is outside the sources at      *)
(* hand.  It is one fixed function: it either returns to its caller or     *)
(* stops the kernel, the same way at every call.  Init chooses which.      *)
(***************************************************************************)
ExceptionHandlerStops == ~handlerReturns

(***************************************************************************)
(* AddrSpace::Load, lines 154-174: the scan of the frame table.  i is the  *)
(* frame examined, idx the next page-table slot.                           *)
(***************************************************************************)
RECURSIVE AllocLoopMutKeepFree(_, _, _, _, _, _)
AllocLoopMutKeepFree(i, idx, pt, ft, ff, np) ==
  IF i >= NumPhysPages \/ idx = np
    THEN [pt |-> pt, ft |-> ft, ff |-> ff, idx |-> idx]
  ELSE IF ft[i] = 1
    THEN AllocLoopMutKeepFree(i + 1, idx + 1, [pt EXCEPT ![idx + 1] = InitEntry(idx, i)],
                              ft, ff - 1, np)
  ELSE AllocLoopMutKeepFree(i + 1, idx, pt, ft, ff, np)

RECURSIVE AllocLoop(_, _, _, _, _, _)
AllocLoop(i, idx, pt, ft, ff, np) ==
  IF i >= NumPhysPages \/ idx = np
    THEN [pt |-> pt, ft |-> ft, ff |-> ff, idx |-> idx]
  ELSE IF ft[i] = 1
    THEN AllocLoop(i + 1, idx + 1, [pt EXCEPT ![idx + 1] = InitEntry(idx, i)],
                   [ft EXCEPT ![i] = 0], ff - 1, np)
  ELSE AllocLoop(i + 1, idx, pt, ft, ff, np)

(***************************************************************************)
(* OpenFile::ReadAt(&mainMemory[paddr], numBytes, position) on the         *)
(* executable of address space e: numBytes bytes of the file land at       *)
(* paddr, paddr + 1, ...; the bytes that fall past the end of mainMemory   *)
(* land outside it.                                                        *)
(***************************************************************************)
ReadAt(mem, e, paddr, numBytes, position) ==
  [a \in DOMAIN mem |->
     IF a >= paddr /\ a < paddr + numBytes THEN FileByte(e, position + (a - paddr))
                                           ELSE mem[a]]

(***************************************************************************)
(* One Translate(vaddr, &paddr, 0) and ReadAt of Load, with the call of    *)
(* ExceptionHandler that follows (lines 211-219, 238-245, 253-261,         *)
(* 297-305).  st holds the page table, the memory, the local paddr (which  *)
(* Translate leaves as it was when it returns an exception) and stop: the  *)
(* kernel stopped (failed assertion in Translate, a write past the end of  *)
(* mainMemory that the machine did not survive, or in the handler).        *)
(***************************************************************************)
ReadPlaced(st, tr, e, numBytes, position, overrunStops) ==
  LET paddr == IF tr.exc = "NoException" THEN tr.paddr ELSE st.paddr
  IN  IF tr.assertFail
        THEN [pt |-> tr.pt, mem |-> st.mem, paddr |-> paddr, stop |-> TRUE]
      ELSE IF paddr + numBytes > MemorySize /\ overrunStops
        THEN [pt |-> tr.pt, mem |-> st.mem, paddr |-> paddr, stop |-> TRUE]
      ELSE [pt |-> tr.pt, mem |-> ReadAt(st.mem, e, paddr, numBytes, position),
            paddr |-> paddr,
            stop |-> tr.exc # "NoException" /\ ExceptionHandlerStops]

ReadChunk(st, np, e, vaddr, numBytes, position, overrunStops) ==
  ReadPlaced(st, Translate(st.pt, np, vaddr, FALSE), e, numBytes, position, overrunStops)

(***************************************************************************)
(* One copy-in loop of Load (lines 205-228, 247-270, 291-314): per chunk   *)
(* Translate(insertBase, &paddr, 0), the read of insertSize bytes, the     *)
(* handler on an exception, then pageTable[vpn].readOnly = ro.             *)
(***************************************************************************)
RECURSIVE CopySegment(_, _, _, _, _, _, _, _)
CopyChunk(rd, np, e, insertBase, remainSize, inFilePos, ro, overrunStops) ==
  IF rd.stop
    THEN rd
    ELSE CopySegment([rd EXCEPT !.pt[(insertBase \div PageSize) + 1].readOnly = ro], np, e,
                     insertBase + Min(remainSize, PageSize),
                     remainSize - Min(remainSize, PageSize),
                     inFilePos + Min(remainSize, PageSize), ro, overrunStops)

CopySegment(st, np, e, insertBase, remainSize, inFilePos, ro, overrunStops) ==
  IF remainSize <= 0 THEN st
  ELSE CopyChunk(ReadChunk(st, np, e, insertBase, Min(remainSize, PageSize), inFilePos,
                           overrunStops),
                 np, e, insertBase, remainSize, inFilePos, ro, overrunStops)

(* Lines 188-229: the code segment. *)
LoadCode(st, np, e, h, overrunStops) ==
  IF h.code.size > 0
    THEN CopySegment(st, np, e, h.code.virtualAddr, h.code.size, h.code.inFileAddr, TRUE,
                     overrunStops)
    ELSE st

(* Lines 247-270: the loop over the initialised data, rd being what the read
   of the whole segment left. *)
CopyInitData(rd, np, e, h, overrunStops) ==
  IF rd.stop
    THEN rd
    ELSE CopySegment(rd, np, e, h.initData.virtualAddr, h.initData.size,
                     h.initData.inFileAddr, FALSE, overrunStops)

(* Lines 230-271: the initialised data: one Translate and read of the whole
   segment at lines 238-245, then the loop. *)
LoadInitData(st, np, e, h, overrunStops) ==
  IF h.initData.size > 0
    THEN CopyInitData(ReadChunk(st, np, e, h.initData.virtualAddr, h.initData.size,
                                h.initData.inFileAddr, overrunStops),
                      np, e, h, overrunStops)
    ELSE st

(* Lines 273-316 (RDATA): the read-only data. *)
LoadReadonlyData(st, np, e, h, overrunStops) ==
  IF h.readonlyData.size > 0
    THEN CopySegment(st, np, e, h.readonlyData.virtualAddr, h.readonlyData.size,
                     h.readonlyData.inFileAddr, TRUE, overrunStops)
    ELSE st

LoadAfterInitData(r2, np, e, h, overrunStops) ==
  IF r2.stop THEN r2 ELSE LoadReadonlyData(r2, np, e, h, overrunStops)

LoadAfterCode(r1, np, e, h, overrunStops) ==
  IF r1.stop THEN r1
  ELSE LoadAfterInitData(LoadInitData(r1, np, e, h, overrunStops), np, e, h, overrunStops)

LoadSegments(st, np, e, h, overrunStops) ==
  LoadAfterCode(LoadCode(st, np, e, h, overrunStops), np, e, h, overrunStops)

\* bzero(&mainMemory[i * PageSize], PageSize), line 171, for every frame i
\* of the set.
Bzero(mem, frames) ==
  [a \in DOMAIN mem |-> IF (a \div PageSize) \in frames THEN 0 ELSE mem[a]]

FreeCount(ft) == Cardinality({f \in Frames : ft[f] = 1})

FramesOf(pt) == {pt[i].physicalPage : i \in 1..Len(pt)}

(***************************************************************************)
(* The kernel after construction (kernel.cc): every frame free.            *)
(***************************************************************************)
MemInit ==
  /\ FrameTable = [f \in Frames |-> 1]
  /\ FreeFrame = NumPhysPages
  /\ asState = [s \in Spaces |-> "none"]
  /\ numPages = [s \in Spaces |-> 0]
  /\ pageTable = [s \in Spaces |-> <<>>]
  /\ handlerReturns \in BOOLEAN
  /\ halted = FALSE
  /\ loadCalls = 0
  /\ translateCalls = 0
  /\ claimed = [s \in Spaces |-> {}]
  /\ mainMemory = [a \in 0..(MemorySize - 1) |-> 0]
  /\ memLast = [op |-> "Init"]

(* AddrSpace::AddrSpace, lines 65-82: does nothing. *)
Construct(s) ==
  /\ ~halted
  /\ asState[s] = "none"
  /\ asState' = [asState EXCEPT ![s] = "new"]
  /\ memLast' = [op |-> "Construct", s |-> s]
  /\ UNCHANGED <<FrameTable, FreeFrame, numPages, pageTable, handlerReturns, halted,
                 loadCalls, translateCalls, claimed, mainMemory>>

\* The virtual address of the first Translate of Load (lines 211, 238,
\* 297); past every page when no segment has bytes.  The local paddr is
\* not initialised (line 180): what it holds is read only when that
\* Translate returns an exception.
FirstRead(h) ==
  IF h.code.size > 0 THEN h.code.virtualAddr
  ELSE IF h.initData.size > 0 THEN h.initData.virtualAddr
  ELSE IF h.readonlyData.size > 0 THEN h.readonlyData.virtualAddr
  ELSE -1

(* Load, lines 176-319, after the scan of the frame table left al: sg is
   what the copy-in loops leave. *)
LoadCopied(s, h, np, al, taken, sg) ==
  /\ FrameTable' = al.ft
  /\ FreeFrame' = al.ff
  /\ numPages' = [numPages EXCEPT ![s] = np]
  /\ pageTable' = [pageTable EXCEPT ![s] = sg.pt]
  /\ mainMemory' = sg.mem
  /\ halted' = sg.stop
  /\ asState' = [asState EXCEPT ![s] = IF sg.stop THEN "new" ELSE "loaded"]
  /\ loadCalls' = loadCalls + 1
  /\ memLast' = [op |-> "Load", s |-> s,
                 ret |-> IF sg.stop THEN "stopped" ELSE "TRUE", h |-> h]
  /\ claimed' = [claimed EXCEPT ![s] = taken]
  /\ UNCHANGED <<handlerReturns, translateCalls>>

LoadTaken(s, h, np, al, taken, paddr, overrunStops) ==
  LoadCopied(s, h, np, al, taken,
             LoadSegments([pt |-> al.pt, mem |-> Bzero(mainMemory, taken),
                           paddr |-> paddr, stop |-> FALSE],
                          np, s, h, overrunStops))

LoadScanned(s, h, np, al, paddr, overrunStops) ==
  LoadTaken(s, h, np, al, {f \in Frames : FrameTable[f] = 1 /\ al.ft[f] = 0},
            paddr, overrunStops)

(***************************************************************************)
(* AddrSpace::Load, lines 139-319, on an executable that opens.  When      *)
(* numPages > FreeFrame the code calls ExceptionHandler and, if that       *)
(* returns, goes on: there is no return statement after the call.  The     *)
(* entries of new TranslationEntry[numPages] the scan does not reach keep  *)
(* indeterminate values.  paddr is what the local paddr holds before the   *)
(* first Translate, overrunStops whether a read past the end of mainMemory *)
(* stops the kernel.                                                       *)
(***************************************************************************)
Load(s, h) ==
  /\ ~halted
  /\ asState[s] = "new"
  /\ loadCalls < MaxLoads
  /\ LET np == divRoundUp(ImageSize(h), PageSize)
         over == np > FreeFrame
         reach == Min(np, FreeCount(FrameTable))
     IN  IF over /\ ExceptionHandlerStops
           THEN /\ halted' = TRUE
                /\ numPages' = [numPages EXCEPT ![s] = np]
                /\ loadCalls' = loadCalls + 1
                /\ memLast' = [op |-> "Load", s |-> s, ret |-> "stopped", h |-> h]
                /\ UNCHANGED <<FrameTable, FreeFrame, asState, pageTable, handlerReturns,
                               translateCalls, claimed, mainMemory>>
           ELSE \E g \in [(reach + 1)..np -> GarbageEntries],
                   paddr \in (IF FirstRead(h) \div PageSize >= reach
                                THEN 0..MemorySize ELSE {0}),
                   overrunStops \in BOOLEAN :
                  LoadScanned(s, h, np,
                              AllocLoop(0, 0,
                                        [i \in 1..np |->
                                           IF i <= reach THEN InitEntry(-1, -1) ELSE g[i]],
                                        FrameTable, FreeFrame, np),
                              paddr, overrunStops)

(***************************************************************************)
(* AddrSpace::Load, lines 106-114, on a file that does not open: Load      *)
(* returns FALSE before it assigns numPages or pageTable.                  *)
(***************************************************************************)
LoadUnopened(s) ==
  /\ ~halted
  /\ asState[s] = "new"
  /\ loadCalls < MaxLoads
  /\ asState' = [asState EXCEPT ![s] = "unopened"]
  /\ loadCalls' = loadCalls + 1
  /\ memLast' = [op |-> "Load", s |-> s, ret |-> "FALSE"]
  /\ UNCHANGED <<FrameTable, FreeFrame, numPages, pageTable, handlerReturns, halted,
                 translateCalls, claimed, mainMemory>>

(***************************************************************************)
(* AddrSpace::~AddrSpace, lines 89-98.  A store through a physicalPage     *)
(* outside 0..NumPhysPages-1 lands outside FrameTable.                     *)
(***************************************************************************)
RECURSIVE ReleaseLoopMutNoCount(_, _, _, _)
ReleaseLoopMutNoCount(i, pt, ft, ff) ==
  IF i >= Len(pt) THEN [ft |-> ft, ff |-> ff]
  ELSE LET f == pt[i + 1].physicalPage
       IN  ReleaseLoopMutNoCount(i + 1, pt, IF f \in Frames THEN [ft EXCEPT ![f] = 1] ELSE ft,
                                 ff)

RECURSIVE ReleaseLoop(_, _, _, _)
ReleaseLoop(i, pt, ft, ff) ==
  IF i >= Len(pt) THEN [ft |-> ft, ff |-> ff]
  ELSE LET f == pt[i + 1].physicalPage
       IN  ReleaseLoop(i + 1, pt, IF f \in Frames THEN [ft EXCEPT ![f] = 1] ELSE ft, ff + 1)

Destroy(s) ==
  /\ ~halted
  /\ asState[s] = "loaded"
  /\ LET rl == ReleaseLoop(0, pageTable[s], FrameTable, FreeFrame)
     IN  /\ FrameTable' = rl.ft
         /\ FreeFrame' = rl.ff
         /\ memLast' = [op |-> "Destroy", s |-> s]
  /\ asState' = [asState EXCEPT ![s] = "none"]
  /\ pageTable' = [pageTable EXCEPT ![s] = <<>>]
  /\ claimed' = [claimed EXCEPT ![s] = {}]
  /\ UNCHANGED <<numPages, handlerReturns, halted, loadCalls, translateCalls, mainMemory>>

(***************************************************************************)
(* AddrSpace::~AddrSpace, lines 89-98, on an address space whose Load      *)
(* returned FALSE.  The constructor (lines 65-82) assigns nothing, so      *)
(* numPages and pageTable are indeterminate: the loop runs n times over    *)
(* entries whose physicalPage is anything (pp), or the read through the    *)
(* pointer stops the kernel (crash).                                       *)
(***************************************************************************)
DestroyUnloaded(s, n, pp, crash) ==
  /\ ~halted
  /\ asState[s] = "unopened"
  /\ LET rl == ReleaseLoop(0, [i \in 1..n |-> InitEntry(i - 1, pp[i])],
                           FrameTable, FreeFrame)
     IN  IF crash
           THEN /\ halted' = TRUE
                /\ UNCHANGED <<FrameTable, FreeFrame>>
           ELSE /\ FrameTable' = rl.ft
                /\ FreeFrame' = rl.ff
                /\ UNCHANGED halted
  /\ memLast' = [op |-> "Destroy", s |-> s]
  /\ asState' = [asState EXCEPT ![s] = "none"]
  /\ UNCHANGED <<numPages, pageTable, handlerReturns, loadCalls, translateCalls, claimed,
                 mainMemory>>

(***************************************************************************)
(* A call of Translate on a loaded address space, for a read or a write of *)
(* any virtual address up to one page past the end.                        *)
(***************************************************************************)
TranslateCall(s, vaddr, isReadWrite) ==
  /\ ~halted
  /\ asState[s] = "loaded"
  /\ translateCalls < MaxTranslates
  /\ vaddr < (numPages[s] + 1) * PageSize
  /\ LET tr == Translate(pageTable[s], numPages[s], vaddr, isReadWrite)
     IN  /\ pageTable' = [pageTable EXCEPT ![s] = tr.pt]
         /\ halted' = tr.assertFail
         /\ memLast' = [op |-> "Translate", s |-> s, vaddr |-> vaddr,
                        isReadWrite |-> isReadWrite,
                        exc |-> IF tr.assertFail THEN "AssertFailed" ELSE tr.exc,
                        paddr |-> tr.paddr]
  /\ translateCalls' = translateCalls + 1
  /\ UNCHANGED <<FrameTable, FreeFrame, asState, numPages, handlerReturns, loadCalls,
                 claimed, mainMemory>>

MaxPages == divRoundUp(MaxSegBytes + UserStackSize, PageSize)


(***************************************************************************)
(*                     The scheduler (threads/scheduler.cc)                *)
(***************************************************************************)
NumThreads == 3
TickStep == 1500
MaxTime == 3000

AgingTicks == 1500
AgingBoost == 10
MaxPriority == 149
L1Floor == 100
L2Floor == 50

Threads == 1..NumThreads
\* The threads start spread over the three bands.  With MaxTime / AgingTicks
\* increments of AgingBoost, 40 and 90 cross into the next band and 140 reaches
\* the cap.
Band(t) == ((t - 1) % 3) + 1

StartPriorities(t) ==
  IF Band(t) = 1 THEN {120, 140} ELSE IF Band(t) = 2 THEN {70, 90} ELSE {20, 40}

\* The burst estimates they start with; a thread that starts in the L3 band
\* never reaches the L1 band within MaxTime, so nothing reads its estimate.
StartBursts(t) ==
  IF Band(t) = 1 THEN {0, 40} ELSE IF Band(t) = 2 THEN {0, 25, 40} ELSE {25}

VARIABLES
  totalTicks,      \* kernel->stats->totalTicks
  thr,             \* per thread: status, priority, remain_burst, approx_burst,
                   \* true_burst, insert_ready_time
  L1, L2, L3,      \* the ready queues, front first
  currentThread,   \* kernel->currentThread
  nextThread,      \* what the caller holds between ScheduleNext and Run (NONE: nothing)
  toBeDestroyed,   \* Scheduler::toBeDestroyed
  intLevel,        \* kernel->interrupt->getLevel(): "IntOff" or "IntOn"
  schedLast        \* what the timer's handler did last (Aging, or CheckPreempt and
                   \* its result), "none" once other scheduler code has run

schedVars == <<totalTicks, thr, L1, L2, L3, currentThread, nextThread, toBeDestroyed,
               intLevel,
               schedLast>>

(***************************************************************************)
(* The file system (filesys/filesys.cc, filesys/filehdr.cc,                *)
(* filesys/directory.cc, userprog/ksyscall.h).                             *)
(*                                                                         *)
(* Bounds.  The disk's sizes (machine/disk.h), the number of direct slots  *)
(* of a header (filesys/filehdr.h) and the directory's size are scaled     *)
(* down: the code is parametric in them.  With NumDirect 2 and SectorSize  *)
(* 2 a file of 5 bytes needs one level of indirection.                     *)
(***************************************************************************)
NumSectors == 12
SectorSize == 2
NumDirect == 2
NumDirEntries == 2
FileNameMaxLen == 3
MaxFsOps == 5

FreeMapSector == 0
DirectorySector == 1
BitsInByte == 8

bytes_in_level1 == NumDirect * SectorSize
bytes_in_level2 == NumDirect * bytes_in_level1
bytes_in_level3 == NumDirect * bytes_in_level2

FreeMapFileSize == NumSectors \div BitsInByte
\* sizeof(DirectoryEntry) is scaled to one byte.
DirectoryFileSize == 1 * NumDirEntries

Sectors == 0..(NumSectors - 1)
\* The sizes files are created with: one sector, the largest file without
\* indirection, the smallest file with one level of it.
FileSizes == {1, bytes_in_level1, bytes_in_level1 + 1}

\* A path is a string, written as the sequence of its characters.
Paths == { <<"/", "a">>, <<"/", "d">>, <<"/", "d", "/", "a">>, <<"/", "d", "a">> }

\* The paths RemoveDir and RecurRemove are called with: a directory may be
\* written with a trailing "/".
DirPaths == Paths \cup { <<"/", "d", "/">> }

\* What strtok returns at the end of the string, and what a C pointer holds
\* when it is NULL.
NullToken == <<>>

\* The content of a word that was never assigned.
UNSET == -2

\* The values an indeterminate int is examined with: a sector number, or a
\* number that is none (-1).
Indeterminate == -1..(NumSectors - 1)

\* What a word holds that the code reads without having assigned it, when
\* the word belongs to an object made by "new FileHeader()" or to a sector
\* of the disk: 0 (the object is value-initialised, the disk file starts
\* zero-filled) or -1 (the FileHeader constructor of the NachOS
\* distribution fills the header with -1).
Unwritten == {-1, 0}

VARIABLES
  disk,        \* the content of every sector of the disk
  openFile,    \* FileSystem::openFile: the header sector of the OpenFile it
               \* points to, -1 when it points to no OpenFile (never set, or
               \* the OpenFile was deleted)
  opened,      \* the ids that Open has returned so far
  freeMapFile, \* FileSystem::freeMapFile: the header of the free-map file,
               \* in memory while the kernel runs
  directoryFile, \* FileSystem::directoryFile: the header of the root
               \* directory's file
  fsOps,       \* the number of file-system operations so far
  fsLast       \* the last operation: its arguments, what it returned, and the
               \* number of clear bits of the free map on disk before it

fsVars == <<disk, openFile, opened, freeMapFile, directoryFile, fsOps, fsLast>>

(***************************************************************************)
(* strtok(name, "/") and its continuation calls: the tokens of a path.     *)
(***************************************************************************)
RECURSIVE Split(_, _, _, _)
Split(name, i, cur, acc) ==
  IF i > Len(name)
    THEN IF cur = <<>> THEN acc ELSE Append(acc, cur)
    ELSE IF name[i] = "/"
           THEN Split(name, i + 1, <<>>, IF cur = <<>> THEN acc ELSE Append(acc, cur))
           ELSE Split(name, i + 1, Append(cur, name[i]), acc)

strtok(name) == Split(name, 1, <<>>, <<>>)

\* What strncpy(table[i].name, name, FileNameMaxLen) stores and what
\* strncmp(.., .., FileNameMaxLen) compares.
NamePrefix(name) == SubSeq(name, 1, Min(Len(name), FileNameMaxLen))

(***************************************************************************)
(* Sector contents.                                                        *)
(***************************************************************************)
RawSector == [kind |-> "raw"]

HdrSector(hdr) == [kind |-> "hdr", hdr |-> hdr]

DirSector(table) == [kind |-> "dir", table |-> table]

MapSector(bits) == [kind |-> "map", bits |-> bits]

\* A FileHeader object before Allocate or FetchFrom has filled it.
NewFileHeader ==
  [numBytes |-> UNSET, numSectors |-> UNSET,
   dataSectors |-> [i \in 1..NumDirect |-> UNSET]]

\* The value read from a word: g when the word was never assigned.
Val(x, g) == IF x = UNSET THEN g ELSE x

\* FileHeader::FetchFrom: the sector's bytes taken as a header.  A sector
\* that holds no header gives indeterminate fields.
FetchFrom(dsk, sector, g) ==
  IF dsk[sector].kind = "hdr"
    THEN dsk[sector].hdr
    ELSE [numBytes |-> g, numSectors |-> g, dataSectors |-> [i \in 1..NumDirect |-> g]]

\* dataSectors[idx] with idx counted from 0 as in the code; an index past
\* the array reads an indeterminate word.
DataSector(hdr, idx, g) ==
  IF idx + 1 \in 1..NumDirect THEN Val(hdr.dataSectors[idx + 1], g) ELSE g

(***************************************************************************)
(* PersistentBitmap (lib/bitmap.cc, filesys/pbitmap.cc).                   *)
(***************************************************************************)
NumClear(map) == Cardinality({s \in Sectors : ~map[s]})

\* The sector FindAndSet marks: the lowest clear one, -1 when none is.
FindAndSet(map) ==
  IF \E s \in Sectors : ~map[s]
    THEN CHOOSE s \in Sectors : ~map[s] /\ \A u \in Sectors : ~map[u] => s <= u
    ELSE -1

Mark(map, s) == [map EXCEPT ![s] = TRUE]

Clear(map, s) == [map EXCEPT ![s] = FALSE]

(***************************************************************************)
(* FileHeader::Allocate, lines 43-125.  The result carries the value       *)
(* returned, whether an ASSERT stopped the kernel, the bitmap, the disk    *)
(* (child headers are written while allocating) and the header's fields.   *)
(***************************************************************************)
RECURSIVE AllocateLeaf(_, _, _)
AllocateLeaf(map, hdr, i) ==
  IF i >= hdr.numSectors
    THEN [fault |-> FALSE, map |-> map, hdr |-> hdr]
    ELSE LET s == FindAndSet(map)
         IN IF s < 0
              THEN [fault |-> TRUE, map |-> map, hdr |-> hdr]
              ELSE AllocateLeaf(Mark(map, s),
                                [hdr EXCEPT !.dataSectors[i + 1] = s], i + 1)

RECURSIVE Allocate(_, _, _)
RECURSIVE AllocateLevel(_, _, _, _, _, _)
\* One of the three while loops (lines 60-73, 77-90, 94-107): level is the
\* capacity in bytes of one child.
AllocateLevel(map, dsk, hdr, fileSize, level, idx) ==
  IF fileSize <= 0
    THEN [ret |-> TRUE, fault |-> FALSE, map |-> map, disk |-> dsk, hdr |-> hdr]
    ELSE LET s == FindAndSet(map)
         IN IF s < 0 \/ idx >= NumDirect
              THEN [ret |-> FALSE, fault |-> TRUE, map |-> map, disk |-> dsk, hdr |-> hdr]
              ELSE LET next_level ==
                         Allocate(Mark(map, s), dsk,
                                  IF fileSize >= level THEN level ELSE fileSize)
                   IN IF next_level.fault
                        THEN [ret |-> FALSE, fault |-> TRUE, map |-> next_level.map,
                              disk |-> next_level.disk, hdr |-> hdr]
                        ELSE AllocateLevel(
                               next_level.map,
                               [next_level.disk EXCEPT ![s] = HdrSector(next_level.hdr)],
                               [hdr EXCEPT !.dataSectors[idx + 1] = s],
                               fileSize - level, level, idx + 1)

\* Allocate as it would be if the test of line 92 were
\* fileSize > bytes_in_level1 + 1.
AllocateMutLateIndirect(map, dsk, fileSize) ==
  LET hdr == [NewFileHeader EXCEPT !.numBytes = fileSize,
                                   !.numSectors = divRoundUp(fileSize, SectorSize)]
  IN IF NumClear(map) < hdr.numSectors
       THEN [ret |-> FALSE, fault |-> FALSE, map |-> map, disk |-> dsk, hdr |-> hdr]
       ELSE IF fileSize > bytes_in_level1 + 1
              THEN AllocateLevel(map, dsk, hdr, fileSize, bytes_in_level1, 0)
       ELSE LET leaf == AllocateLeaf(map, hdr, 0)
            IN [ret |-> ~leaf.fault, fault |-> leaf.fault, map |-> leaf.map,
                disk |-> dsk, hdr |-> leaf.hdr]

Allocate(map, dsk, fileSize) ==
  LET hdr == [NewFileHeader EXCEPT !.numBytes = fileSize,
                                   !.numSectors = divRoundUp(fileSize, SectorSize)]
  IN IF NumClear(map) < hdr.numSectors
       THEN [ret |-> FALSE, fault |-> FALSE, map |-> map, disk |-> dsk, hdr |-> hdr]
       ELSE IF fileSize > bytes_in_level3
              THEN AllocateLevel(map, dsk, hdr, fileSize, bytes_in_level3, 0)
       ELSE IF fileSize > bytes_in_level2
              THEN AllocateLevel(map, dsk, hdr, fileSize, bytes_in_level2, 0)
       ELSE IF fileSize > bytes_in_level1
              THEN AllocateLevel(map, dsk, hdr, fileSize, bytes_in_level1, 0)
       ELSE LET leaf == AllocateLeaf(map, hdr, 0)
            IN [ret |-> ~leaf.fault, fault |-> leaf.fault, map |-> leaf.map,
                disk |-> dsk, hdr |-> leaf.hdr]

(***************************************************************************)
(* FileHeader::Deallocate, lines 134-190.  g is the value an indeterminate *)
(* word is read as.  Bitmap::Test and Bitmap::Clear assert that the        *)
(* sector number is in range, SynchDisk::ReadSector likewise; a recursion  *)
(* deeper than the disk has sectors never returns.                         *)
(***************************************************************************)
RECURSIVE DeallocateLeaf(_, _, _, _, _)
DeallocateLeaf(map, hdr, remainBytes, idx, g) ==
  IF remainBytes <= 0
    THEN [fault |-> FALSE, map |-> map]
    ELSE LET s == DataSector(hdr, idx, g)
         IN IF s \notin Sectors \/ ~map[s]
              THEN [fault |-> TRUE, map |-> map]
              ELSE DeallocateLeaf(Clear(map, s), hdr, remainBytes - SectorSize, idx + 1, g)

RECURSIVE Deallocate(_, _, _, _, _)
RECURSIVE DeallocateLevel(_, _, _, _, _, _, _, _)
DeallocateLevel(map, dsk, hdr, remainBytes, level, idx, g, depth) ==
  IF remainBytes <= 0
    THEN [fault |-> FALSE, map |-> map]
    ELSE LET s == DataSector(hdr, idx, g)
         IN IF s \notin Sectors
              THEN [fault |-> TRUE, map |-> map]
              ELSE LET next_level == Deallocate(map, dsk, FetchFrom(dsk, s, g), g, depth + 1)
                   IN IF next_level.fault
                        THEN next_level
                        ELSE DeallocateLevel(next_level.map, dsk, hdr,
                                             remainBytes - level, level, idx + 1, g, depth)

Deallocate(map, dsk, hdr, g, depth) ==
  LET remainBytes == Val(hdr.numBytes, g)
  IN IF depth > NumSectors
       THEN [fault |-> TRUE, map |-> map]
       ELSE IF remainBytes > bytes_in_level3
              THEN DeallocateLevel(map, dsk, hdr, remainBytes, bytes_in_level3, 0, g, depth)
       ELSE IF remainBytes > bytes_in_level2
              THEN DeallocateLevel(map, dsk, hdr, remainBytes, bytes_in_level2, 0, g, depth)
       ELSE IF remainBytes > bytes_in_level1
              THEN DeallocateLevel(map, dsk, hdr, remainBytes, bytes_in_level1, 0, g, depth)
       ELSE DeallocateLeaf(map, hdr, remainBytes, 0, g)

(***************************************************************************)
(* FileHeader::ByteToSector, lines 226-254.  The three indirect branches   *)
(* call the child's ByteToSector and then reach the end of the function    *)
(* without a return statement: the value the caller receives is            *)
(* indeterminate (g).                                                      *)
(***************************************************************************)
RECURSIVE ByteToSector(_, _, _, _, _)
ByteToSectorLevel(dsk, hdr, offset, level, g, depth) ==
  LET idx == offset \div level
      s == DataSector(hdr, idx, g)
  IN IF s \notin Sectors
       THEN [fault |-> TRUE, ret |-> g]
       ELSE LET next_level ==
                  ByteToSector(dsk, FetchFrom(dsk, s, g), offset - level * idx, g, depth + 1)
            IN [fault |-> next_level.fault, ret |-> g]

ByteToSector(dsk, hdr, offset, g, depth) ==
  LET numBytes == Val(hdr.numBytes, g)
  IN IF depth > NumSectors
       THEN [fault |-> TRUE, ret |-> g]
       ELSE IF numBytes > bytes_in_level3
              THEN ByteToSectorLevel(dsk, hdr, offset, bytes_in_level3, g, depth)
       ELSE IF numBytes > bytes_in_level2
              THEN ByteToSectorLevel(dsk, hdr, offset, bytes_in_level2, g, depth)
       ELSE IF numBytes > bytes_in_level1
              THEN ByteToSectorLevel(dsk, hdr, offset, bytes_in_level1, g, depth)
       ELSE [fault |-> FALSE, ret |-> DataSector(hdr, offset \div SectorSize, g)]

(***************************************************************************)
(* FileHeader::CountHeader, lines 330-382.                                 *)
(***************************************************************************)
RECURSIVE CountHeader(_, _, _, _)
RECURSIVE CountHeaderLevel(_, _, _, _, _, _, _, _)
CountHeaderLevel(dsk, hdr, remainBytes, level, idx, count, g, depth) ==
  IF remainBytes <= 0
    THEN [fault |-> FALSE, ret |-> count]
    ELSE LET s == DataSector(hdr, idx, g)
         IN IF s \notin Sectors
              THEN [fault |-> TRUE, ret |-> count]
              ELSE LET next_level == CountHeader(dsk, FetchFrom(dsk, s, g), g, depth + 1)
                   IN IF next_level.fault
                        THEN next_level
                        ELSE CountHeaderLevel(dsk, hdr, remainBytes - level, level, idx + 1,
                                              count + next_level.ret, g, depth)

CountHeader(dsk, hdr, g, depth) ==
  LET remainBytes == Val(hdr.numBytes, g)
  IN IF depth > NumSectors
       THEN [fault |-> TRUE, ret |-> 0]
       ELSE IF remainBytes > bytes_in_level3
              THEN CountHeaderLevel(dsk, hdr, remainBytes, bytes_in_level3, 0, 0, g, depth)
       ELSE IF remainBytes > bytes_in_level2
              THEN CountHeaderLevel(dsk, hdr, remainBytes, bytes_in_level2, 0, 0, g, depth)
       ELSE IF remainBytes > bytes_in_level1
              THEN CountHeaderLevel(dsk, hdr, remainBytes, bytes_in_level1, 0, 0, g, depth)
       ELSE [fault |-> FALSE, ret |-> 1]

(***************************************************************************)
(* Directory (filesys/directory.cc).  A table is a function from 1 to      *)
(* NumDirEntries; an index of the code is one less.                        *)
(***************************************************************************)
\* Directory::Directory, lines 39-47: names and sectors are not assigned.
NewDirectory ==
  [i \in 1..NumDirEntries |->
     [inUse |-> FALSE, isdir |-> FALSE, name |-> <<>>, sector |-> UNSET]]

\* The bytes of a sector that holds no directory, taken as a table.
GarbageTable(g) ==
  [i \in 1..NumDirEntries |->
     [inUse |-> g % 2 = 1, isdir |-> g % 4 = 1, name |-> <<>>, sector |-> g]]

\* strncmp with a NULL argument reads address 0: the kernel stops.
FindFaults(table, name) ==
  name = NullToken /\ \E i \in 1..NumDirEntries : table[i].inUse

FindDirFaults(table, name) ==
  name = NullToken /\ \E i \in 1..NumDirEntries : table[i].inUse /\ table[i].isdir

\* Directory::FindIndex, lines 93-100 (0 stands for the code's -1).
FindIndex(table, name) ==
  LET hits == {i \in 1..NumDirEntries :
                 table[i].inUse /\ table[i].name = NamePrefix(name)}
  IN IF hits = {} THEN 0 ELSE CHOOSE i \in hits : \A j \in hits : i <= j

\* Directory::FindDirIndex, lines 102-109.
FindDirIndex(table, name) ==
  LET hits == {i \in 1..NumDirEntries :
                 table[i].inUse /\ table[i].isdir /\ table[i].name = NamePrefix(name)}
  IN IF hits = {} THEN 0 ELSE CHOOSE i \in hits : \A j \in hits : i <= j

\* Directory::Find, lines 120-128.
Find(table, name) ==
  IF FindIndex(table, name) # 0 THEN table[FindIndex(table, name)].sector ELSE -1

\* Directory::FindDir, lines 130-137.
FindDir(table, name) ==
  IF FindDirIndex(table, name) # 0 THEN table[FindDirIndex(table, name)].sector ELSE -1

\* The first entry not in use, 0 when the table is full.
FreeSlot(table) ==
  LET free == {i \in 1..NumDirEntries : ~table[i].inUse}
  IN IF free = {} THEN 0 ELSE CHOOSE i \in free : \A j \in free : i <= j

\* AddEntry as it would be without the FindIndex test of lines 153-154 and
\* 170-171.
AddEntryMutNoFind(table, name, newSector, isdir) ==
  IF FindFaults(table, name) \/ name = NullToken
    THEN [ret |-> FALSE, fault |-> TRUE, table |-> table]
  ELSE IF FreeSlot(table) = 0
    THEN [ret |-> FALSE, fault |-> FALSE, table |-> table]
  ELSE [ret |-> TRUE, fault |-> FALSE,
        table |-> [table EXCEPT ![FreeSlot(table)] =
                     [inUse |-> TRUE, isdir |-> isdir, name |-> NamePrefix(name),
                      sector |-> newSector]]]

\* Directory::Add (lines 150-165) and Directory::AddDir (lines 167-182):
\* isdir tells them apart.  strncpy from a NULL name stops the kernel.
AddEntry(table, name, newSector, isdir) ==
  IF FindFaults(table, name)
    THEN [ret |-> FALSE, fault |-> TRUE, table |-> table]
  ELSE IF FindIndex(table, name) # 0 \/ FreeSlot(table) = 0
    THEN [ret |-> FALSE, fault |-> FALSE, table |-> table]
  ELSE IF name = NullToken
    THEN [ret |-> FALSE, fault |-> TRUE, table |-> table]
  ELSE [ret |-> TRUE, fault |-> FALSE,
        table |-> [table EXCEPT ![FreeSlot(table)] =
                     [inUse |-> TRUE, isdir |-> isdir, name |-> NamePrefix(name),
                      sector |-> newSector]]]

Add(table, name, newSector) == AddEntry(table, name, newSector, FALSE)

\* AddDir as it would be if line 176 set isdir to FALSE.
AddDirMutAsFile(table, name, newSector) == AddEntry(table, name, newSector, FALSE)

AddDir(table, name, newSector) == AddEntry(table, name, newSector, TRUE)

\* Directory::Remove, lines 192-202.
DirectoryRemove(table, name) ==
  IF FindIndex(table, name) = 0
    THEN table
    ELSE [table EXCEPT ![FindIndex(table, name)].inUse = FALSE,
                       ![FindIndex(table, name)].isdir = FALSE]

(***************************************************************************)
(* FileSystem (filesys/filesys.cc).  Every operation reads the free map    *)
(* and the directories from the disk and returns the disk it leaves, the   *)
(* value it returns, and whether the kernel stopped inside it (fault).     *)
(***************************************************************************)
\* FileSystem::FileSystem(format = TRUE), lines 84-140: the disk it leaves
\* and the two files it keeps open (their headers stay in memory).
Formatted ==
  LET garbage == [s \in Sectors |-> RawSector]
      marked == Mark(Mark([s \in Sectors |-> FALSE], FreeMapSector), DirectorySector)
      mapHdr == Allocate(marked, garbage, FreeMapFileSize)
      dirHdr == Allocate(mapHdr.map, garbage, DirectoryFileSize)
      headers == [garbage EXCEPT ![FreeMapSector] = HdrSector(mapHdr.hdr),
                                 ![DirectorySector] = HdrSector(dirHdr.hdr)]
      withMap == [headers EXCEPT ![mapHdr.hdr.dataSectors[1]] = MapSector(dirHdr.map)]
  IN [freeMapFile |-> mapHdr.hdr, directoryFile |-> dirHdr.hdr,
      disk |-> [withMap EXCEPT ![dirHdr.hdr.dataSectors[1]] = DirSector(NewDirectory)]]

(***************************************************************************)
(* A disk on which no operation can read an indeterminate word: the free   *)
(* map and every directory reachable from the root are stored where their  *)
(* files say, every entry in use names a sector that holds a header, and   *)
(* every header reachable from one names, in every slot its numBytes       *)
(* makes the code read, a sector that was assigned.  On such a disk one    *)
(* value of g stands for all of them.                                      *)
(***************************************************************************)
RECURSIVE HeaderSound(_, _, _)
HeaderSound(dsk, s, depth) ==
  /\ depth <= NumSectors
  /\ s \in Sectors
  /\ dsk[s].kind = "hdr"
  /\ LET hdr == dsk[s].hdr
         level == IF hdr.numBytes > bytes_in_level3 THEN bytes_in_level3
                  ELSE IF hdr.numBytes > bytes_in_level2 THEN bytes_in_level2
                  ELSE IF hdr.numBytes > bytes_in_level1 THEN bytes_in_level1
                  ELSE SectorSize
         slots == divRoundUp(hdr.numBytes, level)
     IN /\ hdr.numBytes # UNSET
        /\ slots <= NumDirect
        /\ \A i \in 1..slots :
             /\ hdr.dataSectors[i] \in Sectors
             /\ level > SectorSize => HeaderSound(dsk, hdr.dataSectors[i], depth + 1)

RECURSIVE DirectorySound(_, _, _)
DirectorySound(dsk, file, depth) ==
  /\ depth <= NumSectors
  /\ file.dataSectors[1] \in Sectors
  /\ dsk[file.dataSectors[1]].kind = "dir"
  /\ \A i \in 1..NumDirEntries :
       LET entry == dsk[file.dataSectors[1]].table[i]
       IN entry.inUse =>
            /\ HeaderSound(dsk, entry.sector, 0)
            /\ entry.isdir => DirectorySound(dsk, dsk[entry.sector].hdr, depth + 1)

Sound(dsk) ==
  /\ dsk[freeMapFile.dataSectors[1]].kind = "map"
  /\ DirectorySound(dsk, directoryFile, 0)

GarbageOf(dsk) == IF Sound(dsk) THEN {-1} ELSE Unwritten

\* PersistentBitmap(freeMapFile, NumSectors): the bits stored in the file.
ReadFreeMap(dsk, g) ==
  LET c == dsk[DataSector(freeMapFile, 0, g)]
  IN IF c.kind = "map" THEN c.bits ELSE [s \in Sectors |-> (s + g) % 2 = 1]

\* PersistentBitmap::WriteBack(freeMapFile).
WriteFreeMap(dsk, map, g) ==
  [dsk EXCEPT ![DataSector(freeMapFile, 0, g)] = MapSector(map)]

\* new OpenFile(sector) (filesys/openfile.cc): the header is read into memory.
\* SynchDisk::ReadSector asserts that the sector is on the disk.
NewOpenFile(dsk, sector, g) ==
  IF sector \in Sectors
    THEN [fault |-> FALSE, hdr |-> FetchFrom(dsk, sector, g)]
    ELSE [fault |-> TRUE, hdr |-> NewFileHeader]

\* Directory::FetchFrom, lines 66-70: the table is the file's first bytes.
DirectoryFetchFrom(dsk, file, g) ==
  LET s == DataSector(file, 0, g)
  IN IF s \notin Sectors
       THEN [fault |-> TRUE, table |-> NewDirectory]
       ELSE [fault |-> FALSE,
             table |-> IF dsk[s].kind = "dir" THEN dsk[s].table ELSE GarbageTable(g)]

\* Directory::WriteBack, lines 79-83.
DirectoryWriteBack(dsk, file, table, g) ==
  LET s == DataSector(file, 0, g)
  IN IF s \in Sectors THEN [dsk EXCEPT ![s] = DirSector(table)] ELSE dsk

\* The directory walk that opens Create (lines 190-201), CreateSubDir
\* (246-257), Open (312-322), Remove (362-373), RecurRemove (453-464) and
\* CountHeaderSize (616-627): token is what is left of the path when the
\* loop ends, NullToken when every token named a directory.
RECURSIVE WalkLoop(_, _, _, _, _, _, _)
WalkLoop(dsk, tokens, k, directory, prevDirOpenFile, sector, g) ==
  IF k > Len(tokens)
    THEN [fault |-> FALSE, directory |-> directory, prevDirOpenFile |-> prevDirOpenFile,
          token |-> NullToken, sector |-> sector]
    ELSE LET found == FindDir(directory, tokens[k])
             temp == NewOpenFile(dsk, found, g)
             next == DirectoryFetchFrom(dsk, temp.hdr, g)
         IN IF found < 0
              THEN [fault |-> FALSE, directory |-> directory,
                    prevDirOpenFile |-> prevDirOpenFile, token |-> tokens[k],
                    sector |-> found]
              ELSE IF temp.fault \/ next.fault
                     THEN [fault |-> TRUE, directory |-> directory,
                           prevDirOpenFile |-> prevDirOpenFile, token |-> tokens[k],
                           sector |-> found]
                     ELSE WalkLoop(dsk, tokens, k + 1, next.table, temp.hdr, found, g)

Walk(dsk, name, g) ==
  LET root == DirectoryFetchFrom(dsk, directoryFile, g)
  IN IF root.fault
       THEN [fault |-> TRUE, directory |-> NewDirectory, prevDirOpenFile |-> directoryFile,
             token |-> NullToken, sector |-> UNSET]
       ELSE WalkLoop(dsk, strtok(name), 1, root.table, directoryFile, UNSET, g)

Stopped(dsk) == [ret |-> FALSE, fault |-> TRUE, disk |-> dsk]

Returned(ret, dsk) == [ret |-> ret, fault |-> FALSE, disk |-> dsk]

\* The flush as it would be if the directory were written back to the root
\* directory's file whatever directory the walk ended in.
CreateFlushMutRoot(dsk, new_sector, hdr, isdir, prevDirOpenFile, directory, freeMap, g) ==
  LET withHdr == [dsk EXCEPT ![new_sector] = HdrSector(hdr)]
      withSub == IF isdir
                   THEN DirectoryWriteBack(withHdr, hdr, NewDirectory, g)
                   ELSE withHdr
  IN WriteFreeMap(DirectoryWriteBack(withSub, directoryFile, directory, g), freeMap, g)

\* What Create (lines 223-225) and CreateSubDir (lines 277-282) write when
\* everything worked: the header, (for a directory) its empty table, the
\* parent directory, the free map.
CreateFlush(dsk, new_sector, hdr, isdir, prevDirOpenFile, directory, freeMap, g) ==
  LET withHdr == [dsk EXCEPT ![new_sector] = HdrSector(hdr)]
      withSub == IF isdir
                   THEN DirectoryWriteBack(withHdr, hdr, NewDirectory, g)
                   ELSE withHdr
  IN WriteFreeMap(DirectoryWriteBack(withSub, prevDirOpenFile, directory, g), freeMap, g)

\* Create as it would be if the free map were written back when Allocate
\* returns FALSE.
CreateAllocatedMutFlushMap(w, new_sector, isdir, directory, hdr, g) ==
  IF hdr.fault THEN Stopped(hdr.disk)
  ELSE IF ~hdr.ret THEN Returned(FALSE, WriteFreeMap(hdr.disk, hdr.map, g))
  ELSE Returned(TRUE, CreateFlush(hdr.disk, new_sector, hdr.hdr, isdir,
                                  w.prevDirOpenFile, directory, hdr.map, g))

\* Create, lines 217-227, and CreateSubDir, lines 272-284: hdr is what
\* Allocate returned.
CreateAllocated(w, new_sector, isdir, directory, hdr, g) ==
  IF hdr.fault THEN Stopped(hdr.disk)
  ELSE IF ~hdr.ret THEN Returned(FALSE, hdr.disk)
  ELSE Returned(TRUE, CreateFlush(hdr.disk, new_sector, hdr.hdr, isdir,
                                  w.prevDirOpenFile, directory, hdr.map, g))

\* Create, lines 208-230, and CreateSubDir, lines 263-287: the part that
\* follows the test of the name.
CreateBody(dsk, w, size, isdir, g) ==
  LET freeMap == ReadFreeMap(dsk, g)
      new_sector == FindAndSet(freeMap)
      added == IF isdir
                 THEN AddDir(w.directory, w.token, new_sector)
                 ELSE Add(w.directory, w.token, new_sector)
  IN IF new_sector = -1 THEN Returned(FALSE, dsk)
     ELSE IF added.fault THEN Stopped(dsk)
     ELSE IF ~added.ret THEN Returned(FALSE, dsk)
     ELSE CreateAllocated(w, new_sector, isdir, added.table,
                          Allocate(Mark(freeMap, new_sector), dsk, size), g)

\* Create, lines 202-232: w is where the walk ended.
CreateWalked(dsk, w, initialSize, g) ==
  IF w.fault \/ FindFaults(w.directory, w.token) THEN Stopped(dsk)
  ELSE IF Find(w.directory, w.token) >= 0 THEN Returned(FALSE, dsk)
  ELSE CreateBody(dsk, w, initialSize, FALSE, g)

\* FileSystem::Create, lines 179-233.
Create(dsk, name, initialSize, g) == CreateWalked(dsk, Walk(dsk, name, g), initialSize, g)

\* CreateSubDir, lines 258-289.
CreateSubDirWalked(dsk, w, g) ==
  IF w.fault THEN Stopped(dsk)
  ELSE IF w.token = NullToken THEN Returned(FALSE, dsk)
  ELSE CreateBody(dsk, w, DirectoryFileSize, TRUE, g)

\* FileSystem::CreateSubDir, lines 235-290.
CreateSubDir(dsk, name, g) == CreateSubDirWalked(dsk, Walk(dsk, name, g), g)

\* Open as it would be if line 323 looked the name up among the
\* sub-directories only.
OpenWalkedMutFindDir(dsk, w, g) ==
  LET sector == FindDir(w.directory, w.token)
  IN IF w.fault \/ FindFaults(w.directory, w.token) THEN Stopped(dsk)
     ELSE IF sector >= 0
            THEN IF NewOpenFile(dsk, sector, g).fault
                   THEN Stopped(dsk)
                   ELSE Returned(sector, dsk)
            ELSE Returned(-1, dsk)

\* Open, lines 323-334: ret is the sector the OpenFile is bound to (its
\* id), -1 for NULL.
OpenWalked(dsk, w, g) ==
  LET sector == Find(w.directory, w.token)
  IN IF w.fault \/ FindFaults(w.directory, w.token) THEN Stopped(dsk)
     ELSE IF sector >= 0
            THEN IF NewOpenFile(dsk, sector, g).fault
                   THEN Stopped(dsk)
                   ELSE Returned(sector, dsk)
            ELSE Returned(-1, dsk)

\* FileSystem::Open, lines 302-335.
Open(dsk, name, g) == OpenWalked(dsk, Walk(dsk, name, g), g)

\* Remove, lines 387-391, and RemoveDir, lines 431-437: freed is what
\* Deallocate left of the free map.  The header's own sector is cleared,
\* the entry leaves the directory, the free map and the directory are
\* written.
RemoveFreed(dsk, sector, file, token, directory, freed, g) ==
  IF freed.fault
    THEN Stopped(dsk)
    ELSE Returned(TRUE,
                  DirectoryWriteBack(WriteFreeMap(dsk, Clear(freed.map, sector), g),
                                     file, DirectoryRemove(directory, token), g))

\* Remove, lines 381-395, and RemoveDir, lines 425-441 (refetch: RemoveDir
\* reads the parent directory again, line 432).
RemoveBody(dsk, sector, file, token, refetch, directory, g) ==
  LET fileHdr == NewOpenFile(dsk, sector, g)
      parent == IF refetch
                  THEN DirectoryFetchFrom(dsk, file, g)
                  ELSE [fault |-> FALSE, table |-> directory]
  IN IF fileHdr.fault \/ parent.fault \/ FindFaults(parent.table, token)
       THEN Stopped(dsk)
       ELSE RemoveFreed(dsk, sector, file, token, parent.table,
                        Deallocate(ReadFreeMap(dsk, g), dsk, fileHdr.hdr, g, 0), g)

\* Remove, lines 374-395.
RemoveWalked(dsk, w, g) ==
  LET sector == Find(w.directory, w.token)
  IN IF w.fault \/ FindFaults(w.directory, w.token) THEN Stopped(dsk)
     ELSE IF sector = -1 THEN Returned(FALSE, dsk)
     ELSE RemoveBody(dsk, sector, w.prevDirOpenFile, w.token, FALSE, w.directory, g)

\* FileSystem::Remove, lines 351-396.
FileSystemRemove(dsk, name, g) == RemoveWalked(dsk, Walk(dsk, name, g), g)

\* The loop of RemoveDir, lines 412-423: prevDirOpenFile is set from temp
\* before the look-up, pre_token after it.
RECURSIVE RemoveDirLoop(_, _, _, _, _, _, _, _, _)
RemoveDirLoop(dsk, tokens, k, directory, temp, prevDirOpenFile, sector, pre_token, g) ==
  IF k > Len(tokens)
    THEN [fault |-> FALSE, prevDirOpenFile |-> prevDirOpenFile, sector |-> sector,
          pre_token |-> pre_token]
    ELSE LET found == FindDir(directory, tokens[k])
             dirFile == NewOpenFile(dsk, found, g)
             next == DirectoryFetchFrom(dsk, dirFile.hdr, g)
         IN IF found < 0
              THEN [fault |-> FALSE, prevDirOpenFile |-> temp, sector |-> found,
                    pre_token |-> pre_token]
              ELSE IF dirFile.fault \/ next.fault
                     THEN [fault |-> TRUE, prevDirOpenFile |-> temp, sector |-> found,
                           pre_token |-> pre_token]
                     ELSE RemoveDirLoop(dsk, tokens, k + 1, next.table, dirFile.hdr, temp,
                                        found, tokens[k], g)

\* RemoveDir, lines 425-441.  sector and pre_token are not initialised: a
\* path without a token leaves them indeterminate.
RemoveDirWalked(dsk, w, g) ==
  IF w.fault
    THEN Stopped(dsk)
    ELSE RemoveBody(dsk, Val(w.sector, g), w.prevDirOpenFile, w.pre_token, TRUE,
                    NewDirectory, g)

\* FileSystem::RemoveDir, lines 398-442.
RemoveDir(dsk, name, g) ==
  LET root == DirectoryFetchFrom(dsk, directoryFile, g)
  IN IF root.fault
       THEN Stopped(dsk)
       ELSE RemoveDirWalked(dsk,
                            RemoveDirLoop(dsk, strtok(name), 1, root.table, directoryFile,
                                          directoryFile, UNSET, NullToken, g),
                            g)

(***************************************************************************)
(* FileSystem::RecurRemove, lines 444-506.  log lists the calls of Remove  *)
(* and RemoveDir it made, in order, with what each returned.               *)
(***************************************************************************)
Logged(r, op, name) ==
  [ret |-> r.ret, fault |-> r.fault, disk |-> r.disk,
   log |-> IF r.fault THEN <<>> ELSE <<[op |-> op, name |-> name, ret |-> r.ret]>>]

RECURSIVE RecurRemove(_, _, _, _)
RECURSIVE RecurRemoveTable(_, _, _, _, _, _, _)
\* The rest of the loop after the call made for entry i.
RecurRemoveNext(backup_name, table, i, log, g, depth, sub) ==
  IF sub.fault
    THEN [fault |-> TRUE, disk |-> sub.disk, log |-> log \o sub.log]
    ELSE RecurRemoveTable(sub.disk, backup_name, table, i + 1, log \o sub.log, g, depth)

\* The for loop, lines 472-493, over the table read before the loop.
RecurRemoveTable(dsk, backup_name, table, i, log, g, depth) ==
  IF i > NumDirEntries
    THEN [fault |-> FALSE, disk |-> dsk, log |-> log]
  ELSE IF ~table[i].inUse
    THEN RecurRemoveTable(dsk, backup_name, table, i + 1, log, g, depth)
  ELSE RecurRemoveNext(
         backup_name, table, i, log, g, depth,
         IF table[i].isdir
           THEN RecurRemove(dsk, backup_name \o table[i].name \o <<"/">>, g, depth + 1)
           ELSE Logged(FileSystemRemove(dsk, backup_name \o table[i].name, g),
                       "Remove", backup_name \o table[i].name))

\* Lines 494-496: RemoveDir of the directory itself; inside is what the loop
\* left.
RecurRemoveSelf(log, self) ==
  [ret |-> TRUE, fault |-> self.fault, disk |-> self.disk, log |-> log \o self.log]

RecurRemoveInside(name, inside, g) ==
  IF inside.fault
    THEN [ret |-> FALSE, fault |-> TRUE, disk |-> inside.disk, log |-> inside.log]
    ELSE RecurRemoveSelf(inside.log,
                         Logged(RemoveDir(inside.disk, name, g), "RemoveDir", name))

\* Lines 465-505.
RecurRemoveWalked(dsk, name, w, g, depth) ==
  LET prevDirectory == DirectoryFetchFrom(dsk, w.prevDirOpenFile, g)
  IN IF w.fault \/ prevDirectory.fault
       THEN [ret |-> FALSE, fault |-> TRUE, disk |-> dsk, log |-> <<>>]
     ELSE IF w.token = NullToken
       THEN RecurRemoveInside(
              name, RecurRemoveTable(dsk, name, w.directory, 1, <<>>, g, depth), g)
     ELSE IF Find(prevDirectory.table, w.token) # -1
       THEN RecurRemoveSelf(<<>>, Logged(FileSystemRemove(dsk, name, g), "Remove", name))
     ELSE [ret |-> TRUE, fault |-> FALSE, disk |-> dsk, log |-> <<>>]

RecurRemove(dsk, name, g, depth) ==
  IF depth > NumSectors
    THEN [ret |-> FALSE, fault |-> TRUE, disk |-> dsk, log |-> <<>>]
    ELSE RecurRemoveWalked(dsk, name, Walk(dsk, name, g), g, depth)

\* CountHeaderSize, lines 636-639: counted is what CountHeader returned.
CountHeaderCounted(dsk, counted) ==
  IF counted.fault THEN Stopped(dsk) ELSE Returned(counted.ret, dsk)

\* CountHeaderSize, lines 628-644.  FetchFrom of the sector -1 of a name
\* that is not there stops in SynchDisk::ReadSector.
CountHeaderSizeWalked(dsk, w, g) ==
  LET fileHdr == NewOpenFile(dsk, Find(w.directory, w.token), g)
  IN IF w.fault \/ FindFaults(w.directory, w.token) \/ fileHdr.fault
       THEN Stopped(dsk)
       ELSE CountHeaderCounted(dsk, CountHeader(dsk, fileHdr.hdr, g, 0))

\* FileSystem::CountHeaderSize, lines 605-645: the number it multiplies by
\* SectorSize.
CountHeaderSize(dsk, name, g) == CountHeaderSizeWalked(dsk, Walk(dsk, name, g), g)

\* SysOpen, ksyscall.h lines 41-44: openFile->id of a NULL openFile reads
\* address 0.
SysOpenId(dsk, file) ==
  IF file.fault \/ file.ret = -1
    THEN Stopped(dsk)
    ELSE Returned(IF file.ret > 0 THEN file.ret ELSE 0, dsk)

\* SysOpen, ksyscall.h lines 38-45.
SysOpen(dsk, name, g) == SysOpenId(dsk, Open(dsk, name, g))

(***************************************************************************)
(* The operations as steps of the kernel.  A kernel that stopped takes no  *)
(* further step.                                                           *)
(***************************************************************************)
\* The number of clear bits of the free map stored on a disk.
DiskNumClear(dsk) == NumClear(ReadFreeMap(dsk, 0))

FsInit ==
  /\ disk = Formatted.disk
  /\ freeMapFile = Formatted.freeMapFile
  /\ directoryFile = Formatted.directoryFile
  /\ openFile = -1
  /\ opened = {}
  /\ fsOps = 0
  /\ fsLast = [op |-> "Format", name |-> <<>>, arg |-> 0, id |-> -1, ret |-> TRUE,
               fault |-> FALSE, clearBefore |-> NumSectors, log |-> <<>>]

FsMayChange == ~fsLast.fault /\ fsOps < MaxFsOps

\* A call that leaves the disk r.disk and returns r.ret.
FsStep(op, name, arg, id, log, r) ==
  /\ fsLast' = [op |-> op, name |-> name, arg |-> arg, id |-> id, ret |-> r.ret,
                fault |-> r.fault, clearBefore |-> DiskNumClear(disk), log |-> log]
  /\ disk' = r.disk
  /\ fsOps' = fsOps + 1
  /\ UNCHANGED <<freeMapFile, directoryFile>>

\* SysCreate, ksyscall.h lines 28-34.
CreateCall(name, initialSize, g) ==
  /\ FsMayChange
  /\ FsStep("Create", name, initialSize, -1, <<>>, Create(disk, name, initialSize, g))
  /\ UNCHANGED <<openFile, opened>>

CreateSubDirCall(name, g) ==
  /\ FsMayChange
  /\ FsStep("CreateSubDir", name, DirectoryFileSize, -1, <<>>, CreateSubDir(disk, name, g))
  /\ UNCHANGED <<openFile, opened>>

RemoveCall(name, g) ==
  /\ FsMayChange
  /\ FsStep("Remove", name, 0, -1, <<>>, FileSystemRemove(disk, name, g))
  /\ UNCHANGED <<openFile, opened>>

RemoveDirCall(name, g) ==
  /\ FsMayChange
  /\ FsStep("RemoveDir", name, 0, -1, <<>>, RemoveDir(disk, name, g))
  /\ UNCHANGED <<openFile, opened>>

RecurRemoveStep(name, r) == FsStep("RecurRemove", name, 0, -1, r.log, r)

RecurRemoveCall(name, g) ==
  /\ FsMayChange
  /\ RecurRemoveStep(name, RecurRemove(disk, name, g, 0))
  /\ UNCHANGED <<openFile, opened>>

\* FileSystem::Open, lines 327-330: this->openFile is replaced.
OpenStep(name, r) ==
  /\ FsStep("Open", name, 0, -1, <<>>, r)
  /\ openFile' = IF r.fault THEN openFile ELSE r.ret
  /\ opened' = IF r.fault THEN opened ELSE opened \cup {r.ret}

OpenCall(name, g) ==
  /\ FsMayChange
  /\ OpenStep(name, SysOpen(disk, name, g))

\* The file a call through this->openFile acts on, by its header sector
\* (-1: the kernel stops).  A pointer to a deleted OpenFile, or one never
\* set, is dangling: the call may reach the memory of any OpenFile made so
\* far, or stop.
ActsOn == IF openFile >= 0 THEN {openFile} ELSE opened \cup {-1}

\* SysWrite/SysRead with FileSystem::Write/Read, lines 589-597: whatever the
\* id, the call goes to this->openFile.
TransferCall(op, id, acted) ==
  /\ FsMayChange
  /\ id \in opened
  /\ acted \in ActsOn
  /\ FsStep(op, <<>>, 0, id, <<>>, [ret |-> acted, fault |-> acted < 0, disk |-> disk])
  /\ UNCHANGED <<openFile, opened>>

\* SysClose with FileSystem::Close, lines 599-603: delete this->openFile;
\* the pointer is left dangling.
CloseCall(id, acted) ==
  /\ FsMayChange
  /\ id \in opened
  /\ acted \in ActsOn
  /\ FsStep("Close", <<>>, 0, id, <<>>, [ret |-> acted, fault |-> acted < 0, disk |-> disk])
  /\ openFile' = -1
  /\ UNCHANGED opened

ByteToSectorStep(id, offset, r) ==
  FsStep("ByteToSector", <<>>, offset, id, <<>>,
         [ret |-> r.ret, fault |-> r.fault, disk |-> disk])

\* hdr->ByteToSector(offset) of an open file (OpenFile::ReadAt/WriteAt),
\* for an offset inside the file.
ByteToSectorCall(id, offset, g) ==
  /\ FsMayChange
  /\ id \in opened
  /\ disk[id].kind = "hdr"
  /\ offset < disk[id].hdr.numBytes
  /\ ByteToSectorStep(id, offset, ByteToSector(disk, disk[id].hdr, offset, g, 0))
  /\ UNCHANGED <<openFile, opened>>

CountHeaderSizeCall(name, g) ==
  /\ FsMayChange
  /\ FsStep("CountHeaderSize", name, 0, -1, <<>>, CountHeaderSize(disk, name, g))
  /\ UNCHANGED <<openFile, opened>>

vars == <<memVars, schedVars, fsVars>>

(* Thread::WhichQueue (threads/thread.cc): the queue of a priority band. *)
WhichQueue(priority) ==
  IF priority >= L1Floor THEN 1 ELSE IF priority >= L2Floor THEN 2 ELSE 3

(* comp_L1, lines 32-43: < 0 when x goes before y. *)
comp_L1(th, x, y) ==
  IF th[x].remain_burst = 0 /\ th[y].remain_burst = 0
    THEN (IF th[x].priority > th[y].priority THEN -1
          ELSE IF th[x].priority = th[y].priority THEN 0 ELSE 1)
    ELSE (IF th[x].remain_burst > th[y].remain_burst THEN 1
          ELSE IF th[x].remain_burst = th[y].remain_burst THEN 0 ELSE -1)

(* comp_L2, lines 45-50. *)
comp_L2(th, x, y) ==
  IF th[x].priority > th[y].priority THEN -1
  ELSE IF th[x].priority = th[y].priority THEN 0 ELSE 1

Compare(level, th, x, y) == IF level = 1 THEN comp_L1(th, x, y) ELSE comp_L2(th, x, y)

(* SortedList<T>::Insert (lib/list.cc): before the first element that
   compares greater than the item, at the end when there is none. *)
RECURSIVE InsertAt(_, _, _, _, _)
InsertAt(level, th, list, item, k) ==
  IF k > Len(list) THEN Append(list, item)
  ELSE IF Compare(level, th, item, list[k]) < 0
    THEN SubSeq(list, 1, k - 1) \o <<item>> \o SubSeq(list, k, Len(list))
  ELSE InsertAt(level, th, list, item, k + 1)

Insert(level, th, list, item) == InsertAt(level, th, list, item, 1)

(* List<T>::Remove (lib/list.cc). *)
Remove(list, item) == SelectSeq(list, LAMBDA x : x # item)

InList(list, item) == \E k \in 1..Len(list) : list[k] = item

Queued(t) == InList(L1, t) \/ InList(L2, t) \/ InList(L3, t)

(***************************************************************************)
(* Scheduler::ScheduleNext, lines 277-296, on the three queues.            *)
(***************************************************************************)
ScheduleNextMutL2First(l1, l2, l3) ==
  IF l2 # <<>> THEN [ret |-> Head(l2), l1 |-> l1, l2 |-> Tail(l2), l3 |-> l3]
  ELSE IF l1 # <<>> THEN [ret |-> Head(l1), l1 |-> Tail(l1), l2 |-> l2, l3 |-> l3]
  ELSE IF l3 # <<>> THEN [ret |-> Head(l3), l1 |-> l1, l2 |-> l2, l3 |-> Tail(l3)]
  ELSE [ret |-> NONE, l1 |-> l1, l2 |-> l2, l3 |-> l3]

ScheduleNext(l1, l2, l3) ==
  IF l1 # <<>> THEN [ret |-> Head(l1), l1 |-> Tail(l1), l2 |-> l2, l3 |-> l3]
  ELSE IF l2 # <<>> THEN [ret |-> Head(l2), l1 |-> l1, l2 |-> Tail(l2), l3 |-> l3]
  ELSE IF l3 # <<>> THEN [ret |-> Head(l3), l1 |-> l1, l2 |-> l2, l3 |-> Tail(l3)]
  ELSE [ret |-> NONE, l1 |-> l1, l2 |-> l2, l3 |-> l3]

PutToReadyMutAppendAll(th, l1, l2, l3, t, now) ==
  LET th1 == IF th[t].status = "BLOCKED"
               THEN [th EXCEPT ![t].remain_burst = th[t].approx_burst, ![t].true_burst = 0]
               ELSE th
      th2 == [th1 EXCEPT ![t].status = "READY", ![t].insert_ready_time = now]
      queue == WhichQueue(th2[t].priority)
  IN  [th |-> th2,
       l1 |-> IF queue = 1 THEN Insert(1, th2, l1, t) ELSE l1,
       l2 |-> l2,
       l3 |-> IF queue # 1 THEN Append(l3, t) ELSE l3]

PutToReadyMutAlwaysReset(th, l1, l2, l3, t, now) ==
  LET th1 == IF th[t].status # "READY"
               THEN [th EXCEPT ![t].remain_burst = th[t].approx_burst, ![t].true_burst = 0]
               ELSE th
      th2 == [th1 EXCEPT ![t].status = "READY", ![t].insert_ready_time = now]
      queue == WhichQueue(th2[t].priority)
  IN  [th |-> th2,
       l1 |-> IF queue = 1 THEN Insert(1, th2, l1, t) ELSE l1,
       l2 |-> IF queue = 2 THEN Insert(2, th2, l2, t) ELSE l2,
       l3 |-> IF queue = 3 THEN Append(l3, t) ELSE l3]

(***************************************************************************)
(* Scheduler::PutToReady, lines 298-323.  StartReady (threads/thread.cc)   *)
(* records insert_ready_time = totalTicks.                                 *)
(***************************************************************************)
PutToReady(th, l1, l2, l3, t, now) ==
  LET th1 == IF th[t].status = "BLOCKED"
               THEN [th EXCEPT ![t].remain_burst = th[t].approx_burst, ![t].true_burst = 0]
               ELSE th
      th2 == [th1 EXCEPT ![t].status = "READY", ![t].insert_ready_time = now]
      queue == WhichQueue(th2[t].priority)
  IN  [th |-> th2,
       l1 |-> IF queue = 1 THEN Insert(1, th2, l1, t) ELSE l1,
       l2 |-> IF queue = 2 THEN Insert(2, th2, l2, t) ELSE l2,
       l3 |-> IF queue = 3 THEN Append(l3, t) ELSE l3]

(***************************************************************************)
(* Scheduler::Aging, lines 208-275: the three loops.  k indexes the list   *)
(* as it was when the loop began: the iterator has moved on before a       *)
(* promoted thread is removed.  total_ready_time is assigned before it is  *)
(* read in every iteration, so it is a local of the iteration here.        *)
(***************************************************************************)
RECURSIVE AgeL1MutAlways(_, _, _, _)
AgeL1MutAlways(th, items, k, now) ==
  IF k > Len(items) THEN th
  ELSE LET t == items[k]
           total_ready_time == now - th[t].insert_ready_time
       IN  IF total_ready_time >= 0
             THEN AgeL1MutAlways([th EXCEPT ![t].priority =
                                      IF th[t].priority + AgingBoost > MaxPriority
                                        THEN MaxPriority ELSE th[t].priority + AgingBoost,
                                    ![t].insert_ready_time = th[t].insert_ready_time + AgingTicks],
                        items, k + 1, now)
             ELSE AgeL1MutAlways(th, items, k + 1, now)

RECURSIVE AgeL1(_, _, _, _)
AgeL1(th, items, k, now) ==
  IF k > Len(items) THEN th
  ELSE LET t == items[k]
           total_ready_time == now - th[t].insert_ready_time
       IN  IF total_ready_time >= AgingTicks
             THEN AgeL1([th EXCEPT ![t].priority =
                                      IF th[t].priority + AgingBoost > MaxPriority
                                        THEN MaxPriority ELSE th[t].priority + AgingBoost,
                                    ![t].insert_ready_time = th[t].insert_ready_time + AgingTicks],
                        items, k + 1, now)
             ELSE AgeL1(th, items, k + 1, now)

\* One loop over a lower queue: st = [th, upper, lower], floor the priority at
\* which a thread moves to the upper queue, level the upper queue's number.
RECURSIVE AgeLowerMutNoMove(_, _, _, _, _, _)
AgeLowerMutNoMove(st, items, k, now, floor, level) ==
  IF k > Len(items) THEN st
  ELSE LET t == items[k]
           total_ready_time == now - st.th[t].insert_ready_time
       IN  IF total_ready_time >= AgingTicks
             THEN LET th1 == [st.th EXCEPT ![t].priority = st.th[t].priority + AgingBoost,
                                           ![t].insert_ready_time =
                                              st.th[t].insert_ready_time + AgingTicks]
                  IN  AgeLowerMutNoMove([st EXCEPT !.th = th1], items, k + 1, now, floor, level)
             ELSE AgeLowerMutNoMove(st, items, k + 1, now, floor, level)

RECURSIVE AgeLowerMutLoop(_, _, _, _, _, _)
AgeLowerMutLoop(st, items, k, now, floor, level) ==
  IF k > Len(items) THEN st
  ELSE LET t == items[k]
           total_ready_time == now - st.th[t].insert_ready_time
           n == total_ready_time \div AgingTicks
       IN  IF total_ready_time >= AgingTicks
             THEN LET th1 == [st.th EXCEPT ![t].priority = st.th[t].priority + n * AgingBoost,
                                           ![t].insert_ready_time =
                                              st.th[t].insert_ready_time + n * AgingTicks]
                  IN  IF th1[t].priority >= floor
                        THEN AgeLowerMutLoop([th |-> th1,
                                              upper |-> Insert(level, th1, st.upper, t),
                                              lower |-> Remove(st.lower, t)],
                                             items, k + 1, now, floor, level)
                        ELSE AgeLowerMutLoop([st EXCEPT !.th = th1], items, k + 1, now,
                                             floor, level)
             ELSE AgeLowerMutLoop(st, items, k + 1, now, floor, level)

RECURSIVE AgeLowerMutKeepBoth(_, _, _, _, _, _)
AgeLowerMutKeepBoth(st, items, k, now, floor, level) ==
  IF k > Len(items) THEN st
  ELSE LET t == items[k]
           total_ready_time == now - st.th[t].insert_ready_time
       IN  IF total_ready_time >= AgingTicks
             THEN LET th1 == [st.th EXCEPT ![t].priority = st.th[t].priority + AgingBoost,
                                           ![t].insert_ready_time =
                                              st.th[t].insert_ready_time + AgingTicks]
                  IN  IF th1[t].priority >= floor
                        THEN AgeLowerMutKeepBoth([th |-> th1,
                                       upper |-> Insert(level, th1, st.upper, t),
                                       lower |-> st.lower],
                                      items, k + 1, now, floor, level)
                        ELSE AgeLowerMutKeepBoth([st EXCEPT !.th = th1], items, k + 1, now, floor, level)
             ELSE AgeLowerMutKeepBoth(st, items, k + 1, now, floor, level)

RECURSIVE AgeLower(_, _, _, _, _, _)
AgeLower(st, items, k, now, floor, level) ==
  IF k > Len(items) THEN st
  ELSE LET t == items[k]
           total_ready_time == now - st.th[t].insert_ready_time
       IN  IF total_ready_time >= AgingTicks
             THEN LET th1 == [st.th EXCEPT ![t].priority = st.th[t].priority + AgingBoost,
                                           ![t].insert_ready_time =
                                              st.th[t].insert_ready_time + AgingTicks]
                  IN  IF th1[t].priority >= floor
                        THEN AgeLower([th |-> th1,
                                       upper |-> Insert(level, th1, st.upper, t),
                                       lower |-> Remove(st.lower, t)],
                                      items, k + 1, now, floor, level)
                        ELSE AgeLower([st EXCEPT !.th = th1], items, k + 1, now, floor, level)
             ELSE AgeLower(st, items, k + 1, now, floor, level)

Aging(th, l1, l2, l3, now) ==
  LET a1 == AgeL1(th, l1, 1, now)
      a2 == AgeLower([th |-> a1, upper |-> l1, lower |-> l2], l2, 1, now, L1Floor, 1)
      a3 == AgeLower([th |-> a2.th, upper |-> a2.lower, lower |-> l3], l3, 1, now, L2Floor, 2)
  IN  [th |-> a3.th, l1 |-> a2.upper, l2 |-> a3.upper, l3 |-> a3.lower]

(***************************************************************************)
(* Scheduler::CheckPreempt, lines 325-340: the set of values a call may    *)
(* return.  With the current thread in the L1 band and L1 empty, control   *)
(* reaches the end of the function without a return statement: the value   *)
(* the caller sees is indeterminate.                                       *)
(***************************************************************************)
CheckPreempt(th, l1, l2, l3, cur) ==
  IF WhichQueue(th[cur].priority) = 1
    THEN (IF l1 # <<>>
            THEN {th[Head(l1)].remain_burst < th[cur].remain_burst}
            ELSE BOOLEAN)
  ELSE IF WhichQueue(th[cur].priority) = 2
    THEN {l1 # <<>>}
  ELSE {l3 # <<>>}

(***************************************************************************)
(* The scheduler's state after Scheduler::Scheduler, lines 52-59, with the *)
(* main thread running and the other threads created but not yet forked.   *)
(***************************************************************************)
NewThread(p, b, st) ==
  [status |-> st, priority |-> p, remain_burst |-> b, approx_burst |-> b,
   true_burst |-> 0, insert_ready_time |-> 0]

\* What is left of a thread after delete.
Deleted == NewThread(0, 0, "DELETED")

SchedInit ==
  /\ totalTicks = 0
  /\ \E p \in [Threads -> UNION {StartPriorities(t) : t \in Threads}],
        b \in [Threads -> UNION {StartBursts(t) : t \in Threads}] :
       /\ \A t \in Threads : p[t] \in StartPriorities(t) /\ b[t] \in StartBursts(t)
       /\ thr = [t \in Threads |->
                NewThread(p[t], b[t], IF t = 1 THEN "RUNNING" ELSE "JUST_CREATED")]
  /\ L1 = <<>> /\ L2 = <<>> /\ L3 = <<>>
  /\ currentThread = 1
  /\ nextThread = NONE
  /\ toBeDestroyed = NONE
  /\ intLevel = "IntOff"
  /\ schedLast = [op |-> "none"]

\* Interrupts are off from the moment a thread gives up the processor until
\* Run has switched: the timer's handler runs only outside that window.
InterruptsOn == nextThread = NONE /\ thr[currentThread].status \in {"RUNNING", "BLOCKED"}

(* Thread::Sleep (threads/thread.cc): the running thread blocks. *)
SleepCall ==
  /\ nextThread = NONE
  /\ thr[currentThread].status = "RUNNING"
  /\ thr' = [thr EXCEPT ![currentThread].status = "BLOCKED"]
  /\ schedLast' = [op |-> "none"]
  /\ UNCHANGED <<totalTicks, L1, L2, L3, currentThread, nextThread, toBeDestroyed>>

(* Scheduler::PutToReady(thread): a fork, a wake-up, or the running thread
   yielding. *)
PutToReadyCall(t) ==
  /\ ~Queued(t)
  /\ IF nextThread # NONE
       THEN t = currentThread /\ thr[t].status = "RUNNING"
       ELSE thr[t].status \in {"JUST_CREATED", "BLOCKED"}
  /\ LET r == PutToReady(thr, L1, L2, L3, t, totalTicks)
     IN  /\ thr' = r.th
         /\ L1' = r.l1
         /\ L2' = r.l2
         /\ L3' = r.l3
  /\ schedLast' = [op |-> "none"]
  /\ UNCHANGED <<totalTicks, currentThread, nextThread, toBeDestroyed>>

(* Scheduler::ScheduleNext(): the caller keeps what it returns for Run. *)
ScheduleNextCall ==
  /\ nextThread = NONE
  /\ LET r == ScheduleNext(L1, L2, L3)
     IN  /\ L1' = r.l1
         /\ L2' = r.l2
         /\ L3' = r.l3
         /\ nextThread' = r.ret
         /\ schedLast' = [op |-> "none"]
  /\ UNCHANGED <<totalTicks, thr, currentThread, toBeDestroyed>>

(* Scheduler::Run(nextThread, finishing), lines 126-177, with the
   CheckToBeDestroyed (lines 187-194) that the thread switched to performs. *)
RunCall(finishing) ==
  /\ nextThread # NONE
  /\ thr[currentThread].status # "RUNNING"
  /\ finishing => /\ thr[currentThread].status = "BLOCKED"
                  /\ nextThread # currentThread
                  /\ toBeDestroyed = NONE
  /\ LET oldThread == currentThread
         th1 == [thr EXCEPT ![nextThread].status = "RUNNING"]
     IN  thr' = IF finishing THEN [th1 EXCEPT ![oldThread] = Deleted] ELSE th1
  /\ currentThread' = nextThread
  /\ nextThread' = NONE
  /\ toBeDestroyed' = NONE
  /\ schedLast' = [op |-> "none"]
  /\ UNCHANGED <<totalTicks, L1, L2, L3>>

(* Scheduler::Aging(), from the timer's handler. *)
AgingCall ==
  /\ InterruptsOn
  /\ LET r == Aging(thr, L1, L2, L3, totalTicks)
     IN  /\ thr' = r.th
         /\ L1' = r.l1
         /\ L2' = r.l2
         /\ L3' = r.l3
  /\ schedLast' = [op |-> "Aging"]
  /\ UNCHANGED <<totalTicks, currentThread, nextThread, toBeDestroyed>>

(* Scheduler::CheckPreempt(), from the timer's handler. *)
CheckPreemptCall ==
  /\ InterruptsOn
  /\ thr[currentThread].status = "RUNNING"
  /\ \E ret \in CheckPreempt(thr, L1, L2, L3, currentThread) :
       schedLast' = [op |-> "CheckPreempt", ret |-> ret]
  /\ UNCHANGED <<totalTicks, thr, L1, L2, L3, currentThread, nextThread, toBeDestroyed>>

(* The clock (machine/stats.h: totalTicks) advances. *)
TickCall ==
  /\ InterruptsOn
  /\ totalTicks + TickStep <= MaxTime
  /\ totalTicks' = totalTicks + TickStep
  /\ schedLast' = [op |-> "none"]
  /\ UNCHANGED <<thr, L1, L2, L3, currentThread, nextThread, toBeDestroyed>>

SchedNext ==
  \/ SleepCall /\ UNCHANGED <<memVars, fsVars, intLevel>>
  \/ \E t \in Threads : PutToReadyCall(t) /\ UNCHANGED <<memVars, fsVars, intLevel>>
  \/ ScheduleNextCall /\ UNCHANGED <<memVars, fsVars, intLevel>>
  \/ \E finishing \in BOOLEAN : RunCall(finishing) /\ UNCHANGED <<memVars, fsVars, intLevel>>
  \/ AgingCall /\ UNCHANGED <<memVars, fsVars, intLevel>>
  \/ CheckPreemptCall /\ UNCHANGED <<memVars, fsVars, intLevel>>
  \/ TickCall /\ UNCHANGED <<memVars, fsVars, intLevel>>

MemNext ==
  \/ \E s \in Spaces : Construct(s) /\ UNCHANGED <<schedVars, fsVars>>
  \/ \E s \in Spaces, h \in NoffHeaders : Load(s, h) /\ UNCHANGED <<schedVars, fsVars>>
  \/ \E s \in Spaces : LoadUnopened(s) /\ UNCHANGED <<schedVars, fsVars>>
  \/ \E s \in Spaces : Destroy(s) /\ UNCHANGED <<schedVars, fsVars>>
  \/ \E s \in Spaces, n \in 0..MaxPages, crash \in BOOLEAN :
       \E pp \in [1..n -> (-1)..NumPhysPages] :
         DestroyUnloaded(s, n, pp, crash) /\ UNCHANGED <<schedVars, fsVars>>
  \/ \E s \in Spaces, vaddr \in 0..((MaxPages + 1) * PageSize - 1), w \in BOOLEAN :
       TranslateCall(s, vaddr, w) /\ UNCHANGED <<schedVars, fsVars>>

\* The memory manager at rest while the scheduler is examined, and the
\* scheduler at rest while the memory manager is.
MemBoot ==
  /\ MemInit
  /\ handlerReturns

SchedBoot ==
  /\ totalTicks = 0
  /\ thr = [t \in Threads |->
              NewThread(CHOOSE q \in StartPriorities(t) : TRUE, 0,
                        IF t = 1 THEN "RUNNING" ELSE "JUST_CREATED")]
  /\ L1 = <<>> /\ L2 = <<>> /\ L3 = <<>>
  /\ currentThread = 1
  /\ nextThread = NONE
  /\ toBeDestroyed = NONE
  /\ intLevel = "IntOff"
  /\ schedLast = [op |-> "none"]

InitMem == MemInit /\ SchedBoot /\ FsInit

(***************************************************************************)
(* The loader examined byte by byte.  The kernel is taken at a moment when *)
(* address space 1 has been constructed and an earlier address space, 2,   *)
(* holds the frames of `used`: any set of frames can be left to it by      *)
(* one-page address spaces that were loaded before it and have been        *)
(* destroyed since.  Space 2 was loaded from an image of initialised data  *)
(* and stack; the free frames hold the zeros of the bzero of line 171.     *)
(***************************************************************************)
\* The virtual page of space 2 that frame f holds, counted from 0: the scan of
\* lines 156-174 hands out the free frames in ascending order.
PageIn(used, f) == Cardinality({u \in used : u < f})

LoadedBefore(used) ==
  /\ FrameTable = [f \in Frames |-> IF f \in used THEN 0 ELSE 1]
  /\ FreeFrame = NumPhysPages - Cardinality(used)
  /\ asState = [s \in Spaces |-> IF s = 1 THEN "new"
                                 ELSE IF s = 2 /\ used # {} THEN "loaded" ELSE "none"]
  /\ numPages = [s \in Spaces |-> IF s = 2 THEN Cardinality(used) ELSE 0]
  /\ pageTable = [s \in Spaces |->
                    IF s = 2
                      THEN [i \in 1..Cardinality(used) |-> InitEntry(i - 1, CHOOSE f \in used : PageIn(used, f) = i - 1)]
                      ELSE <<>>]
  /\ claimed = [s \in Spaces |-> IF s = 2 THEN used ELSE {}]
  /\ mainMemory =
       [a \in 0..(MemorySize - 1) |->
          IF (a \div PageSize) \in used
               /\ PageIn(used, a \div PageSize) * PageSize + (a % PageSize)
                    < Cardinality(used) * PageSize - UserStackSize
            THEN FileByte(2, NoffHeaderSize + PageIn(used, a \div PageSize) * PageSize
                                            + (a % PageSize))
            ELSE 0]
  /\ loadCalls = IF used = {} THEN 0 ELSE 1

LoadInit ==
  /\ \E used \in {u \in SUBSET Frames :
                     Cardinality(u) * PageSize <= MaxLoadBytes + UserStackSize} :
       LoadedBefore(used)
  /\ handlerReturns \in BOOLEAN
  /\ halted = FALSE
  /\ translateCalls = 0
  /\ memLast = [op |-> "Init"]

LoadNext ==
  \E h \in LoadHeaders : Load(1, h) /\ UNCHANGED <<schedVars, fsVars>>

InitLoad == LoadInit /\ SchedBoot /\ FsInit

SpecLoad == InitLoad /\ [][LoadNext]_vars

SpecMem == InitMem /\ [][MemNext]_vars

InitSched == SchedInit /\ MemBoot /\ FsInit

SpecSched == InitSched /\ [][SchedNext]_vars

(***************************************************************************)
(* The scheduler with threads whose priorities lie within one increment of *)
(* AgingBoost of each other and of the next band: two threads of a queue   *)
(* can change places in the order of their priorities when Aging raises    *)
(* one of them.                                                            *)
(***************************************************************************)
ClosePriorities(t) ==
  IF Band(t) = 1 THEN {110, 145} ELSE IF Band(t) = 2 THEN {55, 95} ELSE {40, 45}

AgeInit ==
  /\ totalTicks = 0
  /\ \E p \in [Threads -> UNION {ClosePriorities(t) : t \in Threads}],
        b \in [Threads -> UNION {StartBursts(t) : t \in Threads}] :
       /\ \A t \in Threads : p[t] \in ClosePriorities(t) /\ b[t] \in StartBursts(t)
       /\ thr = [t \in Threads |->
                NewThread(p[t], b[t], IF t = 1 THEN "RUNNING" ELSE "JUST_CREATED")]
  /\ L1 = <<>> /\ L2 = <<>> /\ L3 = <<>>
  /\ currentThread = 1
  /\ nextThread = NONE
  /\ toBeDestroyed = NONE
  /\ intLevel = "IntOff"
  /\ schedLast = [op |-> "none"]

InitAge == AgeInit /\ MemBoot /\ FsInit

SpecAge == InitAge /\ [][SchedNext]_vars

(***************************************************************************)
(* The scheduler met by threads in the middle of their lives: a thread     *)
(* that has run carries the burst accounting of Thread (threads/thread.cc: *)
(* true_burst grows while it runs, approx_burst is averaged when it        *)
(* blocks), and a thread that is not running may be blocked.               *)
(***************************************************************************)
\* remain_burst, approx_burst and true_burst of a thread that has not run,
\* and of threads that have.
Accounting ==
  {[remain_burst |-> 0, approx_burst |-> 0, true_burst |-> 0],
   [remain_burst |-> 25, approx_burst |-> 40, true_burst |-> 10]}

ThreadInit ==
  /\ totalTicks = 0
  /\ \E a \in [Threads -> Accounting],
        st \in [Threads -> {"RUNNING", "JUST_CREATED", "BLOCKED"}] :
       /\ \A t \in Threads : st[t] = "RUNNING" <=> t = 1
       /\ \A t \in Threads : st[t] = "JUST_CREATED" => a[t].true_burst = 0
       /\ thr = [t \in Threads |->
                [status |-> st[t],
                 priority |-> CHOOSE q \in StartPriorities(t) : TRUE,
                 remain_burst |-> a[t].remain_burst,
                 approx_burst |-> a[t].approx_burst,
                 true_burst |-> a[t].true_burst,
                 insert_ready_time |-> 0]]
  /\ L1 = <<>> /\ L2 = <<>> /\ L3 = <<>>
  /\ currentThread = 1
  /\ nextThread = NONE
  /\ toBeDestroyed = NONE
  /\ intLevel = "IntOff"
  /\ schedLast = [op |-> "none"]

\* Everything of the memory manager but the mark that the kernel has stopped.
memRest == <<FrameTable, FreeFrame, asState, numPages, pageTable, handlerReturns,
             loadCalls, translateCalls, claimed, mainMemory, memLast>>

(* Interrupt::SetLevel (machine/interrupt.cc), through which Enable and
   Disable go. *)
SetLevelCall(level) ==
  /\ toBeDestroyed = NONE
  /\ intLevel' = level
  /\ UNCHANGED <<totalTicks, thr, L1, L2, L3, currentThread, nextThread, toBeDestroyed,
                 schedLast>>

(* ASSERT(kernel->interrupt->getLevel() == IntOff) as the first statement of
   an entry point (lines 281, 301, 131): the call goes on with interrupts
   off, and the kernel aborts otherwise. *)
AssertIntOff(call) ==
  IF intLevel = "IntOff"
    THEN call /\ UNCHANGED <<halted, intLevel>>
    ELSE halted' = TRUE /\ UNCHANGED schedVars

RunSwitchMutParkNext(finishing) ==
  /\ nextThread # NONE
  /\ thr[currentThread].status # "RUNNING"
  /\ finishing => /\ thr[currentThread].status = "BLOCKED"
                  /\ nextThread # currentThread
  /\ IF finishing /\ toBeDestroyed # NONE
       THEN /\ halted' = TRUE
            /\ UNCHANGED schedVars
       ELSE /\ toBeDestroyed' = IF finishing THEN nextThread ELSE toBeDestroyed
            /\ thr' = [thr EXCEPT ![nextThread].status = "RUNNING"]
            /\ currentThread' = nextThread
            /\ nextThread' = NONE
            /\ schedLast' = [op |-> "none"]
            /\ UNCHANGED <<totalTicks, L1, L2, L3, intLevel, halted>>

(* Scheduler::Run(nextThread, finishing), lines 126-151, up to SWITCH: the
   outgoing thread is parked in toBeDestroyed when it is finishing.  The
   thread switched to runs CheckToBeDestroyed before anything else (after
   SWITCH at line 168 when it resumes, in Thread::Begin when it starts). *)
RunSwitch(finishing) ==
  /\ nextThread # NONE
  /\ thr[currentThread].status # "RUNNING"
  /\ finishing => /\ thr[currentThread].status = "BLOCKED"
                  /\ nextThread # currentThread
  /\ IF finishing /\ toBeDestroyed # NONE
       THEN /\ halted' = TRUE
            /\ UNCHANGED schedVars
       ELSE /\ toBeDestroyed' = IF finishing THEN currentThread ELSE toBeDestroyed
            /\ thr' = [thr EXCEPT ![nextThread].status = "RUNNING"]
            /\ currentThread' = nextThread
            /\ nextThread' = NONE
            /\ schedLast' = [op |-> "none"]
            /\ UNCHANGED <<totalTicks, L1, L2, L3, intLevel, halted>>

(* Scheduler::CheckToBeDestroyed, lines 187-194, by the thread that Run
   switched to. *)
CheckToBeDestroyedCall ==
  /\ toBeDestroyed # NONE
  /\ thr' = [thr EXCEPT ![toBeDestroyed] = Deleted]
  /\ toBeDestroyed' = NONE
  /\ schedLast' = [op |-> "none"]
  /\ UNCHANGED <<totalTicks, L1, L2, L3, currentThread, nextThread, intLevel>>

\* Until the thread switched to has looked at toBeDestroyed, nothing else
\* runs; a kernel that has stopped runs nothing.
ThreadNext ==
  \/ \E level \in {"IntOff", "IntOn"} :
       ~halted /\ SetLevelCall(level) /\ UNCHANGED <<memVars, fsVars>>
  \/ ~halted /\ toBeDestroyed = NONE /\ SleepCall
       /\ UNCHANGED <<memVars, fsVars, intLevel>>
  \/ \E t \in Threads :
       ~halted /\ toBeDestroyed = NONE /\ AssertIntOff(PutToReadyCall(t))
         /\ UNCHANGED <<memRest, fsVars>>
  \/ ~halted /\ toBeDestroyed = NONE /\ AssertIntOff(ScheduleNextCall)
       /\ UNCHANGED <<memRest, fsVars>>
  \/ \E finishing \in BOOLEAN :
       ~halted /\ toBeDestroyed = NONE
         /\ (IF intLevel = "IntOff" THEN RunSwitch(finishing)
                                    ELSE halted' = TRUE /\ UNCHANGED schedVars)
         /\ UNCHANGED <<memRest, fsVars>>
  \/ ~halted /\ CheckToBeDestroyedCall /\ UNCHANGED <<memVars, fsVars>>
  \/ ~halted /\ toBeDestroyed = NONE /\ AgingCall
       /\ UNCHANGED <<memVars, fsVars, intLevel>>
  \/ ~halted /\ toBeDestroyed = NONE /\ CheckPreemptCall
       /\ UNCHANGED <<memVars, fsVars, intLevel>>
  \/ ~halted /\ toBeDestroyed = NONE /\ TickCall
       /\ UNCHANGED <<memVars, fsVars, intLevel>>

InitThread == ThreadInit /\ MemBoot /\ FsInit

SpecThread == InitThread /\ [][ThreadNext]_vars

(***************************************************************************)
(* The scheduler under a timer that keeps ticking: time runs long enough   *)
(* for a thread of priority 0 to be aged into the L1 band, and the tick    *)
(* handler (Aging) is called again and again.  The running thread keeps    *)
(* the CPU: the threads that are put to ready, at tick 0, are not          *)
(* dispatched.                                                             *)
(***************************************************************************)
\* The ticks after which a thread that started at priority 0 has been offered
\* enough increments to reach L1Floor, and one period more.
WaitCap == ((L1Floor \div AgingBoost) + 1) * AgingTicks

StarveInit ==
  /\ totalTicks = 0
  /\ \E p \in [Threads -> {0, 40, 50, 70, 120}] :
       /\ \A t \in Threads : WhichQueue(p[t]) = Band(t)
       /\ thr = [t \in Threads |->
                  NewThread(p[t], 0, IF t = 1 THEN "RUNNING" ELSE "JUST_CREATED")]
  /\ L1 = <<>> /\ L2 = <<>> /\ L3 = <<>>
  /\ currentThread = 1
  /\ nextThread = NONE
  /\ toBeDestroyed = NONE
  /\ intLevel = "IntOff"
  /\ schedLast = [op |-> "none"]

(* The clock advances by one aging period, up to WaitCap. *)
WaitCall ==
  /\ InterruptsOn
  /\ totalTicks + AgingTicks <= WaitCap
  /\ totalTicks' = totalTicks + AgingTicks
  /\ schedLast' = [op |-> "none"]
  /\ UNCHANGED <<thr, L1, L2, L3, currentThread, nextThread, toBeDestroyed>>

StarveNext ==
  \/ \E t \in Threads :
       totalTicks = 0 /\ PutToReadyCall(t) /\ UNCHANGED <<memVars, fsVars, intLevel>>
  \/ AgingCall /\ UNCHANGED <<memVars, fsVars, intLevel>>
  \/ WaitCall /\ UNCHANGED <<memVars, fsVars, intLevel>>

InitStarve == StarveInit /\ MemBoot /\ FsInit

\* The timer interrupt recurs whatever the threads do: time advances and the
\* handler calls Aging, again and again.
SpecStarve ==
  /\ InitStarve
  /\ [][StarveNext]_vars
  /\ WF_vars(WaitCall /\ UNCHANGED <<memVars, fsVars, intLevel>>)
  /\ WF_vars(AgingCall /\ UNCHANGED <<memVars, fsVars, intLevel>>)

FsNext ==
  \/ \E name \in Paths, initialSize \in FileSizes, g \in GarbageOf(disk) :
       CreateCall(name, initialSize, g) /\ UNCHANGED <<memVars, schedVars>>
  \/ \E name \in Paths, g \in GarbageOf(disk) :
       CreateSubDirCall(name, g) /\ UNCHANGED <<memVars, schedVars>>
  \/ \E name \in Paths, g \in GarbageOf(disk) :
       RemoveCall(name, g) /\ UNCHANGED <<memVars, schedVars>>
  \/ \E name \in DirPaths, g \in GarbageOf(disk) :
       RemoveDirCall(name, g) /\ UNCHANGED <<memVars, schedVars>>
  \/ \E name \in DirPaths, g \in GarbageOf(disk) :
       RecurRemoveCall(name, g) /\ UNCHANGED <<memVars, schedVars>>
  \/ \E name \in Paths, g \in GarbageOf(disk) :
       OpenCall(name, g) /\ UNCHANGED <<memVars, schedVars>>
  \/ \E op \in {"Read", "Write"}, id \in Sectors, acted \in -1..(NumSectors - 1) :
       TransferCall(op, id, acted) /\ UNCHANGED <<memVars, schedVars>>
  \/ \E id \in Sectors, acted \in -1..(NumSectors - 1) :
       CloseCall(id, acted) /\ UNCHANGED <<memVars, schedVars>>
  \/ \E id \in Sectors, offset \in 0..bytes_in_level1, g \in Indeterminate :
       ByteToSectorCall(id, offset, g) /\ UNCHANGED <<memVars, schedVars>>
  \/ \E name \in Paths, g \in GarbageOf(disk) :
       CountHeaderSizeCall(name, g) /\ UNCHANGED <<memVars, schedVars>>

InitFs == FsInit /\ MemBoot /\ SchedBoot

SpecFs == InitFs /\ [][FsNext]_vars

(***************************************************************************)
(* One Directory object under Add, AddDir and Remove                       *)
(* (filesys/directory.cc).  The object is the root directory of the        *)
(* formatted disk: its table is fetched from the directory file before     *)
(* each call and written back after it.  One name is longer than           *)
(* FileNameMaxLen and agrees with another in its first FileNameMaxLen      *)
(* characters.                                                             *)
(***************************************************************************)
DirNames == { <<"a">>, <<"d">>, <<"d", "a", "t">>, <<"d", "a", "t", "a">> }

\* The header sectors handed to Add and AddDir.
DirNewSectors == {4, 5}

\* Directory::Remove with the value it returns (lines 194-201).
RemoveReturned(table, name) ==
  [ret |-> FindIndex(table, name) # 0, fault |-> FindFaults(table, name),
   table |-> DirectoryRemove(table, name)]

DirStep(op, name, newSector, r) ==
  /\ FsMayChange
  /\ FsStep(op, name, newSector, -1, <<>>,
            [ret |-> r.ret, fault |-> r.fault,
             disk |-> DirectoryWriteBack(disk, directoryFile, r.table, -1)])
  /\ UNCHANGED <<openFile, opened>>

DirAddCall(name, newSector) ==
  DirStep("Add", name, newSector,
          Add(DirectoryFetchFrom(disk, directoryFile, -1).table, name, newSector))

DirAddDirCall(name, newSector) ==
  DirStep("AddDir", name, newSector,
          AddDir(DirectoryFetchFrom(disk, directoryFile, -1).table, name, newSector))

DirRemoveCall(name) ==
  DirStep("DirectoryRemove", name, 0,
          RemoveReturned(DirectoryFetchFrom(disk, directoryFile, -1).table, name))

DirNext ==
  \/ \E name \in DirNames, newSector \in DirNewSectors :
       DirAddCall(name, newSector) /\ UNCHANGED <<memVars, schedVars>>
  \/ \E name \in DirNames, newSector \in DirNewSectors :
       DirAddDirCall(name, newSector) /\ UNCHANGED <<memVars, schedVars>>
  \/ \E name \in DirNames :
       DirRemoveCall(name) /\ UNCHANGED <<memVars, schedVars>>

SpecDir == InitFs /\ [][DirNext]_vars

(***************************************************************************)
(*                    Claims about the address space                       *)
(*                                                                         *)
(* A step is a Load step exactly when it raises loadCalls, a Translate     *)
(* step exactly when it raises translateCalls; memLast' then names the     *)
(* address space, the arguments and what the call returned.                *)
(***************************************************************************)
\* A Load of an executable that opened (Load returns FALSE only when the file
\* does not open).
LoadStep == loadCalls' = loadCalls + 1 /\ memLast'.ret # "FALSE"

TranslateStep == translateCalls' = translateCalls + 1

DestroyStep ==
  /\ memLast'.op = "Destroy"
  /\ asState[memLast'.s] = "loaded"
  /\ asState'[memLast'.s] = "none"

(* The entry Translate looks at, for a call on space s at vaddr. *)
EntryAt(pts, s, vaddr) == pts[s][(vaddr \div PageSize) + 1]

(* C1: Load succeeds when the image's numPages equals FreeFrame and then
   takes every free frame; when numPages > FreeFrame, a Load that returns
   has returned false, and FrameTable and FreeFrame are as they were
   before the call (no frame is claimed). *)
C1_LoadLimit ==
  [][LoadStep =>
       LET np == numPages'[memLast'.s]
       IN  /\ np = FreeFrame => (memLast'.ret = "TRUE" /\ FreeFrame' = 0)
           /\ (np > FreeFrame /\ memLast'.ret # "stopped") =>
                /\ memLast'.ret = "FALSE"
                /\ FrameTable' = FrameTable
                /\ FreeFrame' = FreeFrame
    ]_memVars

(* C1, the half that the code keeps: a Load with numPages = FreeFrame has
   returned TRUE and no frame is left free. *)
C1_ExactFitLoaded ==
  /\ memLast.op = "Load"
  /\ memLast.ret = "TRUE"
  /\ numPages[memLast.s] = NumPhysPages - 1
  /\ FreeFrame = 0
  /\ \A f \in Frames : FrameTable[f] = 0
  /\ \E t \in Spaces : t # memLast.s /\ asState[t] = "loaded" /\ numPages[t] = 1

(* C2: no physical frame number appears in the page tables of two live
   address spaces, nor twice within one page table. *)
C2_NoSharedFrame ==
  \A s1 \in Spaces, s2 \in Spaces :
    (asState[s1] = "loaded" /\ asState[s2] = "loaded") =>
      \A i \in 1..Len(pageTable[s1]), j \in 1..Len(pageTable[s2]) :
        (<<s1, i>> # <<s2, j>> /\ pageTable[s1][i].physicalPage \in Frames)
          => pageTable[s1][i].physicalPage # pageTable[s2][j].physicalPage

(* C3: Translate checks its failure cases in a fixed order: vpn >= numPages
   gives AddressErrorException; otherwise a write to a readOnly page gives
   ReadOnlyException, also when the entry's physicalPage is out of range;
   otherwise physicalPage >= NumPhysPages gives BusErrorException;
   NoException only when none of the three holds. *)
C3_TranslateOrder ==
  [][TranslateStep =>
       LET s == memLast'.s
           vaddr == memLast'.vaddr
           e == memLast'.exc
       IN  IF vaddr \div PageSize >= numPages[s] THEN e = "AddressErrorException"
           ELSE IF memLast'.isReadWrite /\ EntryAt(pageTable, s, vaddr).readOnly
             THEN e = "ReadOnlyException"
           ELSE IF EntryAt(pageTable, s, vaddr).physicalPage >= NumPhysPages
             THEN e = "BusErrorException"
           ELSE e \in {"NoException", "AssertFailed"}
    ]_memVars

(* C3: a write to a readOnly page whose physicalPage is out of range has
   returned ReadOnlyException. *)
C3_ReadOnlyBeforeBus ==
  /\ memLast.op = "Translate"
  /\ memLast.exc = "ReadOnlyException"
  /\ memLast.isReadWrite
  /\ EntryAt(pageTable, memLast.s, memLast.vaddr).readOnly
  /\ EntryAt(pageTable, memLast.s, memLast.vaddr).physicalPage >= NumPhysPages

(* C4: when Translate returns NoException, paddr is
   physicalPage * PageSize + (vaddr mod PageSize) and below MemorySize,
   the entry's use flag is set, its dirty flag is set by a write and left
   as it was by a read. *)
C4_TranslateSuccess ==
  [][(TranslateStep /\ memLast'.exc = "NoException") =>
       LET s == memLast'.s
           vaddr == memLast'.vaddr
           old == EntryAt(pageTable, s, vaddr)
           new == EntryAt(pageTable', s, vaddr)
       IN  /\ memLast'.paddr = old.physicalPage * PageSize + (vaddr % PageSize)
           /\ memLast'.paddr < MemorySize
           /\ new.use
           /\ new.dirty = (IF memLast'.isReadWrite THEN TRUE ELSE old.dirty)
    ]_memVars

(* C4: a second Translate, a read at an odd offset of a page whose dirty
   flag is set, has returned NoException. *)
C4_ReadOfDirtyPage ==
  /\ memLast.op = "Translate"
  /\ memLast.exc = "NoException"
  /\ ~memLast.isReadWrite
  /\ translateCalls = 2
  /\ EntryAt(pageTable, memLast.s, memLast.vaddr).dirty
  /\ memLast.paddr % PageSize = 1

(* C5: a Translate call that returns AddressErrorException,
   ReadOnlyException or BusErrorException leaves every page-table entry
   unchanged; a write to a readOnly page returns ReadOnlyException and
   sets neither dirty nor use. *)
C5_FailedTranslateFrame ==
  [][TranslateStep =>
       LET s == memLast'.s
           vaddr == memLast'.vaddr
       IN  /\ memLast'.exc \in {"AddressErrorException", "ReadOnlyException",
                                "BusErrorException"}
                => pageTable' = pageTable
           /\ (/\ memLast'.isReadWrite
               /\ vaddr \div PageSize < numPages[s]
               /\ EntryAt(pageTable, s, vaddr).readOnly)
                => (memLast'.exc = "ReadOnlyException" /\ pageTable' = pageTable)
    ]_memVars

(* C5: a write to a readOnly page whose dirty flag is clear has returned
   ReadOnlyException. *)
C5_ReadOnlyWriteRefused ==
  /\ memLast.op = "Translate"
  /\ memLast.exc = "ReadOnlyException"
  /\ memLast.isReadWrite
  /\ ~EntryAt(pageTable, memLast.s, memLast.vaddr).dirty

(* C6: destroying an address space gives back exactly the frames its Load
   took: FrameTable and FreeFrame return to what they were before that
   Load, whatever the other address spaces did in between. *)
C6_DestroyUndoesLoad ==
  [][DestroyStep =>
       LET s == memLast'.s
       IN  /\ FrameTable' = [f \in Frames |-> IF f \in claimed[s] THEN 1 ELSE FrameTable[f]]
           /\ FreeFrame' = FreeFrame + Cardinality(claimed[s])
    ]_memVars

(***************************************************************************)
(*                      Claims about the scheduler                         *)
(*                                                                         *)
(* A step is an Aging step exactly when it leaves schedLast'.op = "Aging", *)
(* a CheckPreempt step exactly when it leaves "CheckPreempt" there with    *)
(* the value returned; ScheduleNext hands its result to nextThread.        *)
(***************************************************************************)
AgingDone == schedLast'.op = "Aging"

CheckPreemptDone == schedLast'.op = "CheckPreempt"

Waited(t) == totalTicks - thr[t].insert_ready_time

QueueOf(l1, l2, l3, t) ==
  {q \in 1..3 : InList(IF q = 1 THEN l1 ELSE IF q = 2 THEN l2 ELSE l3, t)}

(* C7: ScheduleNext removes and returns the front of L1 if L1 is non-empty,
   otherwise the front of L2, otherwise the front of L3, otherwise NONE; the
   other queues are left as they were.  So it never returns an L2 or L3
   thread while L1 is non-empty, nor an L3 thread while L2 is non-empty, and
   threads of priorities 120, 70 and 20 made ready together come back in
   that order. *)
C7_ScheduleNextOrder ==
  [][ScheduleNextCall =>
        /\ L1 # <<>> =>
             nextThread' = Head(L1) /\ L1' = Tail(L1) /\ L2' = L2 /\ L3' = L3
        /\ L1 = <<>> /\ L2 # <<>> =>
             nextThread' = Head(L2) /\ L2' = Tail(L2) /\ L1' = L1 /\ L3' = L3
        /\ L1 = <<>> /\ L2 = <<>> /\ L3 # <<>> =>
             nextThread' = Head(L3) /\ L3' = Tail(L3) /\ L1' = L1 /\ L2' = L2
        /\ L1 = <<>> /\ L2 = <<>> /\ L3 = <<>> =>
             nextThread' = NONE /\ L1' = L1 /\ L2' = L2 /\ L3' = L3
        /\ \A t \in Threads :
             Queued(t) /\ nextThread' # NONE =>
               WhichQueue(thr[nextThread'].priority) <= WhichQueue(thr[t].priority)
    ]_vars

(* C7 witness: three threads of priorities 120, 70 and 20 were all made
   ready at tick AgingTicks; the first has run and blocked, the second has
   run after it and blocked, and ScheduleNext has now returned the third. *)
C7_ThreeReturnedInOrder ==
  \E a, b, c \in Threads :
    /\ thr[a].priority = 120 /\ thr[b].priority = 70 /\ thr[c].priority = 20
    /\ totalTicks = AgingTicks
    /\ \A t \in {a, b, c} : thr[t].insert_ready_time = AgingTicks
    /\ thr[a].status = "BLOCKED"
    /\ currentThread = b /\ thr[b].status = "BLOCKED"
    /\ nextThread = c
    /\ L1 = <<>> /\ L2 = <<>> /\ L3 = <<>>

(* C8: when the current thread is in the L1 band, CheckPreempt returns true
   if and only if L1 is non-empty and the front of L1 has remain_burst
   strictly less than the current thread's; in particular it returns false
   when L1 is empty and when the bursts are equal. *)
C8_CheckPreemptL1 ==
  [][CheckPreemptDone /\ WhichQueue(thr[currentThread].priority) = 1 =>
        (schedLast'.ret <=>
           /\ L1 # <<>>
           /\ thr[Head(L1)].remain_burst < thr[currentThread].remain_burst)
    ]_vars

(* C8 witness: the current thread, in the L1 band with remain_burst 40, is
   told to yield to an L1 thread of remain_burst 25. *)
C8_ShorterArrivalPreempts ==
  /\ schedLast = [op |-> "CheckPreempt", ret |-> TRUE]
  /\ WhichQueue(thr[currentThread].priority) = 1
  /\ thr[currentThread].remain_burst = 40
  /\ L1 # <<>>
  /\ thr[Head(L1)].remain_burst = 25

\* The priority after n increments, capped for a thread that waits in L1.
Aged(t, n) ==
  IF InList(L1, t) /\ thr[t].priority + n * AgingBoost > MaxPriority
    THEN MaxPriority
    ELSE thr[t].priority + n * AgingBoost

(* C9 as stated: when Aging runs, every queued thread gains 10 priority for
   each full 1500 ticks of waited (capped at 149 in L1) and its
   insert_ready_time advances by 1500 for each increment, for any value of
   waited, including waited >= 3000. *)
C9_AgingPerFullPeriod ==
  [][AgingDone =>
        \A t \in Threads :
          Queued(t) =>
            LET n == Waited(t) \div AgingTicks
            IN  /\ thr'[t].priority = Aged(t, n)
                /\ thr'[t].insert_ready_time = thr[t].insert_ready_time + n * AgingTicks
    ]_vars

(* C9 as amended: one Aging call gives a queued thread with waited >= 1500
   exactly one increment of 10 (capped at 149 in L1) and advances its
   insert_ready_time by exactly 1500, however long it has waited; a thread
   with waited < 1500 keeps both. *)
C9_AgingOncePerCall ==
  [][AgingDone =>
        \A t \in Threads :
          Queued(t) =>
            IF Waited(t) >= AgingTicks
              THEN /\ thr'[t].priority = Aged(t, 1)
                   /\ thr'[t].insert_ready_time = thr[t].insert_ready_time + AgingTicks
              ELSE /\ thr'[t].priority = thr[t].priority
                   /\ thr'[t].insert_ready_time = thr[t].insert_ready_time
    ]_vars

(* C9 witness: Aging has just run on a thread that had waited two full
   periods: its insert_ready_time is one period on, one period is still
   owed, and it has gained a single increment. *)
C9_TwoPeriodsOneIncrement ==
  /\ schedLast.op = "Aging"
  /\ \E t \in Threads :
       /\ Queued(t)
       /\ Waited(t) >= AgingTicks
       /\ thr[t].insert_ready_time = AgingTicks
       /\ thr[t].priority \in {p + AgingBoost : p \in StartPriorities(t)}

(* C10: within one Aging call, an L3 thread whose raised priority is >= 50
   leaves L3 and is in L2, an L2 thread whose raised priority is >= 100
   leaves L2 and is in L1, a thread whose priority stays inside its band
   stays in its queue, and L1 residents stay in L1. *)
C10_AgingPromotes ==
  [][AgingDone =>
        \A t \in Threads :
          /\ InList(L3, t) =>
               QueueOf(L1', L2', L3', t) =
                 IF thr'[t].priority >= L2Floor THEN {2} ELSE {3}
          /\ InList(L2, t) =>
               QueueOf(L1', L2', L3', t) =
                 IF thr'[t].priority >= L1Floor THEN {1} ELSE {2}
          /\ InList(L1, t) => QueueOf(L1', L2', L3', t) = {1}
          /\ ~Queued(t) => QueueOf(L1', L2', L3', t) = {}
    ]_vars

(* C10 witness: Aging has just raised a thread from 40 to 50 and a thread
   from 90 to 100; the first is now in L2 and the second in L1. *)
C10_BothPromotions ==
  /\ schedLast.op = "Aging"
  /\ \E t, u \in Threads :
       /\ thr[t].priority = L2Floor /\ InList(L2, t)
       /\ thr[t].insert_ready_time = totalTicks
       /\ thr[u].priority = L1Floor /\ InList(L1, u)
       /\ thr[u].insert_ready_time = totalTicks

(***************************************************************************)
(* Claims about the file system (SpecFs).  A claim about an operation is   *)
(* a property of the step that makes it: fsLast' holds its arguments and   *)
(* what it returned, disk and disk' the disk before and after.             *)
(***************************************************************************)
FsDone(op) == fsOps' = fsOps + 1 /\ fsLast'.op = op

\* The directory a path's terminal name is looked up in, as the path reads:
\* every token but the last names a sub-directory, starting at the root.
RootTable(dsk) == DirectoryFetchFrom(dsk, directoryFile, -1).table

RECURSIVE ParentTable(_, _, _, _)
ParentTable(dsk, tokens, k, table) ==
  IF k >= Len(tokens)
    THEN [ok |-> TRUE, table |-> table]
    ELSE LET s == FindDir(table, tokens[k])
         IN IF s < 0
              THEN [ok |-> FALSE, table |-> table]
              ELSE ParentTable(dsk, tokens, k + 1,
                               DirectoryFetchFrom(dsk, FetchFrom(dsk, s, -1), -1).table)

Terminal(name) == strtok(name)[Len(strtok(name))]

\* The entry of the path's terminal name in its parent directory (0: none).
TerminalIndex(dsk, name) ==
  LET parent == ParentTable(dsk, strtok(name), 1, RootTable(dsk))
  IN IF strtok(name) # <<>> /\ parent.ok THEN FindIndex(parent.table, Terminal(name)) ELSE 0

TerminalEntry(dsk, name) ==
  ParentTable(dsk, strtok(name), 1, RootTable(dsk)).table[TerminalIndex(dsk, name)]

\* The free map and every directory stored on d2 are those stored on d1.
SameMapAndDirectories(d1, d2) ==
  \A s \in Sectors :
    (d1[s].kind \in {"map", "dir"} \/ d2[s].kind \in {"map", "dir"}) => d1[s] = d2[s]

(* C11: Create(path, n) on a path whose terminal name already exists in the
   parent directory, as a file or as a sub-directory, returns false and
   leaves the directories and the free map on disk as they were. *)
C11_CreateExistingRefused ==
  [][(FsDone("Create") /\ Sound(disk) /\ TerminalIndex(disk, fsLast'.name) > 0) =>
        /\ ~fsLast'.fault
        /\ fsLast'.ret = FALSE
        /\ SameMapAndDirectories(disk, disk')
    ]_vars

(* C11 witness: a second Create of a path that names a file has returned
   false. *)
C11_SecondCreateRefused ==
  /\ fsLast.op = "Create" /\ ~fsLast.fault /\ fsLast.ret = FALSE
  /\ TerminalIndex(disk, fsLast.name) > 0
  /\ ~TerminalEntry(disk, fsLast.name).isdir

\* Every token of the path but the last names a directory.
ParentExists(dsk, name) ==
  strtok(name) # <<>> /\ ParentTable(dsk, strtok(name), 1, RootTable(dsk)).ok

\* Path resolution as the operations share it: from the root, each token
\* that names a sub-directory is descended into; resolution ends at the
\* first token that is no sub-directory, which is the name operated on, in
\* the directory reached.  ResolvedLen is the number of tokens used.
RECURSIVE ResolvedLen(_, _, _, _)
ResolvedLen(dsk, tokens, k, table) ==
  IF k > Len(tokens)
    THEN Len(tokens)
    ELSE LET s == FindDir(table, tokens[k])
         IN IF s < 0
              THEN k
              ELSE ResolvedLen(dsk, tokens, k + 1,
                               DirectoryFetchFrom(dsk, FetchFrom(dsk, s, -1), -1).table)

RECURSIVE PathOf(_)
PathOf(tokens) ==
  IF tokens = <<>> THEN <<>> ELSE <<"/">> \o Head(tokens) \o PathOf(Tail(tokens))

\* The path of the name operated on: the tokens that resolution uses.
Resolved(dsk, name) ==
  PathOf(SubSeq(strtok(name), 1, ResolvedLen(dsk, strtok(name), 1, RootTable(dsk))))

(* C12: when Create(path, n) has returned true and Open(path) is the next
   call, Open returns a handle, the handle is bound to the header sector
   that the parent directory records for the name the path resolves to, and
   the header in that sector has length n; in the root and in
   sub-directories. *)
C12_OpenAfterCreate ==
  [][(/\ fsLast.op = "Create" /\ ~fsLast.fault /\ fsLast.ret = TRUE
      /\ FsDone("Open") /\ fsLast'.name = fsLast.name) =>
        /\ ~fsLast'.fault
        /\ TerminalIndex(disk, Resolved(disk, fsLast.name)) > 0
        /\ fsLast'.ret = TerminalEntry(disk, Resolved(disk, fsLast.name)).sector
        /\ disk[fsLast'.ret].kind = "hdr"
        /\ disk[fsLast'.ret].hdr.numBytes = fsLast.arg
    ]_vars

(* C12 witness: CreateSubDir("/d"), Create("/d/a", n) with an n that needs
   an indirect level, Open("/d/a") on a disk that was never corrupted: the
   handle is bound to the sector the directory d records for a. *)
C12_OpenedInSubDirectory ==
  /\ fsOps = 3
  /\ fsLast.op = "Open" /\ ~fsLast.fault
  /\ fsLast.name = <<"/", "d", "/", "a">>
  /\ FindDir(RootTable(disk), <<"d">>) >= 0
  /\ TerminalIndex(disk, fsLast.name) > 0
  /\ fsLast.ret = TerminalEntry(disk, fsLast.name).sector
  /\ disk[fsLast.ret].hdr.numBytes > bytes_in_level1

(* C13: when Create(name, n) has returned true and Remove(name) is the next
   call, Remove returns true and the free map on disk has as many clear bits
   as it had before the Create, for every size n. *)
C13_RemoveUndoesCreate ==
  [][(/\ fsLast.op = "Create" /\ ~fsLast.fault /\ fsLast.ret = TRUE
      /\ FsDone("Remove") /\ fsLast'.name = fsLast.name) =>
        /\ ~fsLast'.fault
        /\ fsLast'.ret = TRUE
        /\ DiskNumClear(disk') = fsLast.clearBefore
    ]_vars

(* C13 witness: on the formatted disk a file that fits a leaf header was
   created and removed, and the free map has its clear bits back. *)
C13_LeafCreateRemoved ==
  /\ fsOps = 2
  /\ fsLast.op = "Remove" /\ ~fsLast.fault /\ fsLast.ret = TRUE
  /\ fsLast.clearBefore < DiskNumClear(disk)
  /\ DiskNumClear(disk) = DiskNumClear(Formatted.disk)

(* C14: whenever Create or CreateSubDir returns false, the free map and
   every directory stored on the disk are what they were before the call. *)
C14_FailedCreateWritesNothing ==
  [][((FsDone("Create") \/ FsDone("CreateSubDir"))
       /\ ~fsLast'.fault /\ fsLast'.ret = FALSE) =>
        SameMapAndDirectories(disk, disk')
    ]_vars

(* C14 witness: a Create has returned false for lack of data sectors, with
   a free header sector, a free directory entry and a new name; the free
   map on disk still has the clear bits it had before the call. *)
C14_NoSpaceCreateRefused ==
  /\ fsLast.op = "Create" /\ ~fsLast.fault /\ fsLast.ret = FALSE
  /\ ParentExists(disk, fsLast.name)
  /\ TerminalIndex(disk, fsLast.name) = 0
  /\ fsLast.clearBefore > 0
  /\ DiskNumClear(disk) = fsLast.clearBefore
  /\ \E i \in 1..NumDirEntries :
       ~ParentTable(disk, strtok(fsLast.name), 1, RootTable(disk)).table[i].inUse

\* The sectors a file of n bytes takes besides its own header: its data
\* sectors and one sector for each header of its indirect levels.
RECURSIVE SectorsNeeded(_)
RECURSIVE ChildrenNeeded(_, _)
ChildrenNeeded(n, level) ==
  IF n <= 0 THEN 0
  ELSE 1 + SectorsNeeded(Min(n, level)) + ChildrenNeeded(n - level, level)

SectorsNeeded(n) ==
  IF n > bytes_in_level3 THEN ChildrenNeeded(n, bytes_in_level3)
  ELSE IF n > bytes_in_level2 THEN ChildrenNeeded(n, bytes_in_level2)
  ELSE IF n > bytes_in_level1 THEN ChildrenNeeded(n, bytes_in_level1)
  ELSE divRoundUp(n, SectorSize)

\* The free map Create hands to Allocate: the map on disk with the new
\* header's sector marked (filesys.cc:208-217).
AllocateInput(dsk) == Mark(ReadFreeMap(dsk, -1), FindAndSet(ReadFreeMap(dsk, -1)))

\* Create(name, ...) on this disk gets as far as calling Allocate.
ReachesAllocate(dsk, name) ==
  /\ ParentExists(dsk, name)
  /\ TerminalIndex(dsk, name) = 0
  /\ FindDir(ParentTable(dsk, strtok(name), 1, RootTable(dsk)).table, Terminal(name)) < 0
  /\ FindAndSet(ReadFreeMap(dsk, -1)) # -1
  /\ FreeSlot(ParentTable(dsk, strtok(name), 1, RootTable(dsk)).table) > 0

(* C15: when the free map handed to Allocate has fewer clear bits than the
   file needs (data sectors and the header sectors of its indirect levels),
   Allocate returns false without tripping an assertion and leaves the map
   as it was; Create, which called it, returns false. *)
C15_AllocateRefusesShortMap ==
  [][(/\ FsDone("Create") /\ Sound(disk)
      /\ ReachesAllocate(disk, fsLast'.name)
      /\ NumClear(AllocateInput(disk)) < SectorsNeeded(fsLast'.arg)) =>
        /\ ~Allocate(AllocateInput(disk), disk, fsLast'.arg).fault
        /\ ~Allocate(AllocateInput(disk), disk, fsLast'.arg).ret
        /\ Allocate(AllocateInput(disk), disk, fsLast'.arg).map = AllocateInput(disk)
        /\ ~fsLast'.fault /\ fsLast'.ret = FALSE
    ]_vars

(* C15 witness: Create has handed Allocate a map with fewer clear bits than
   the data sectors of a file that fits a leaf header, and has returned
   false. *)
C15_LeafAllocateRefused ==
  /\ fsLast.op = "Create" /\ ~fsLast.fault /\ fsLast.ret = FALSE
  /\ fsLast.arg <= bytes_in_level1
  /\ ReachesAllocate(disk, fsLast.name)
  /\ NumClear(AllocateInput(disk)) < SectorsNeeded(fsLast.arg)
  /\ ~Allocate(AllocateInput(disk), disk, fsLast.arg).ret

\* The data sector that holds byte offset of the file of header hdr, found
\* by descending through the child headers stored on dsk.
RECURSIVE LeafSectorOf(_, _, _)
LeafSectorOf(dsk, hdr, offset) ==
  LET level == IF hdr.numBytes > bytes_in_level3 THEN bytes_in_level3
               ELSE IF hdr.numBytes > bytes_in_level2 THEN bytes_in_level2
               ELSE IF hdr.numBytes > bytes_in_level1 THEN bytes_in_level1
               ELSE SectorSize
      idx == offset \div level
  IN IF level = SectorSize
       THEN hdr.dataSectors[idx + 1]
       ELSE LeafSectorOf(dsk, dsk[hdr.dataSectors[idx + 1]].hdr, offset - level * idx)

(* C16: ByteToSector(offset), for a header that Allocate filled completely
   and an offset inside the file, returns the data sector that holds the
   byte: the one reached through the child headers, at any indirection
   level. *)
C16_ByteToSectorLeaf ==
  [][(FsDone("ByteToSector") /\ HeaderSound(disk, fsLast'.id, 0)) =>
        /\ ~fsLast'.fault
        /\ fsLast'.ret = LeafSectorOf(disk, disk[fsLast'.id].hdr, fsLast'.arg)
    ]_vars

(* C16 witness: for a file that fits a leaf header, ByteToSector of an
   offset in the second sector has returned the second data sector, which
   differs from the first. *)
C16_LeafSecondSector ==
  /\ fsLast.op = "ByteToSector" /\ ~fsLast.fault
  /\ HeaderSound(disk, fsLast.id, 0)
  /\ disk[fsLast.id].hdr.numBytes <= bytes_in_level1
  /\ fsLast.arg >= SectorSize
  /\ fsLast.ret = disk[fsLast.id].hdr.dataSectors[2]
  /\ fsLast.ret # disk[fsLast.id].hdr.dataSectors[1]

\* The header sectors of a file: its root header and, below a header of an
\* indirect level, every child header.
RECURSIVE HeaderSectors(_, _)
RECURSIVE ChildHeaderSectors(_, _, _, _)
ChildHeaderSectors(dsk, hdr, remainBytes, idx) ==
  IF remainBytes <= 0 THEN 0
  ELSE LET level == IF hdr.numBytes > bytes_in_level3 THEN bytes_in_level3
                    ELSE IF hdr.numBytes > bytes_in_level2 THEN bytes_in_level2
                    ELSE bytes_in_level1
       IN HeaderSectors(dsk, dsk[hdr.dataSectors[idx + 1]].hdr)
          + ChildHeaderSectors(dsk, hdr, remainBytes - level, idx + 1)

HeaderSectors(dsk, hdr) ==
  IF hdr.numBytes > bytes_in_level1
    THEN 1 + ChildHeaderSectors(dsk, hdr, hdr.numBytes, 0)
    ELSE 1

(* C17: CountHeader on the root header of a file, as CountHeaderSize calls
   it, returns the number of header sectors of the file: the root header
   and every child header below it. *)
C17_CountHeaderTotal ==
  [][(/\ FsDone("CountHeaderSize")
      /\ ParentExists(disk, fsLast'.name)
      /\ TerminalIndex(disk, fsLast'.name) > 0
      /\ HeaderSound(disk, TerminalEntry(disk, fsLast'.name).sector, 0)) =>
        /\ ~fsLast'.fault
        /\ fsLast'.ret =
             HeaderSectors(disk, disk[TerminalEntry(disk, fsLast'.name).sector].hdr)
    ]_vars

(* C17 witness: for a file that fits a leaf header CountHeader has returned
   1, the root header. *)
C17_LeafCountsOne ==
  /\ fsLast.op = "CountHeaderSize" /\ ~fsLast.fault
  /\ ParentExists(disk, fsLast.name)
  /\ TerminalIndex(disk, fsLast.name) > 0
  /\ ~TerminalEntry(disk, fsLast.name).isdir
  /\ disk[TerminalEntry(disk, fsLast.name).sector].hdr.numBytes <= bytes_in_level1
  /\ fsLast.ret = 1

\* The table of the directory that a path names.
NamedDirectory(dsk, name) ==
  DirectoryFetchFrom(dsk, dsk[TerminalEntry(dsk, name).sector].hdr, -1).table

(* C18: RecurRemove(path) on a path that names a directory, with or without
   a trailing "/", returns having removed every entry of the directory (a
   Remove or RemoveDir of it returned true, and its header sector is clear
   in the free map) before the RemoveDir of the directory itself, which is
   its last call and returns true; the directory's entry is gone from its
   parent, so nothing beneath it can be opened. *)
C18_RecurRemoveAll ==
  [][(/\ FsDone("RecurRemove") /\ Sound(disk)
      /\ ParentExists(disk, fsLast'.name)
      /\ TerminalIndex(disk, fsLast'.name) > 0
      /\ TerminalEntry(disk, fsLast'.name).isdir) =>
        /\ ~fsLast'.fault
        /\ fsLast'.log # <<>>
        /\ fsLast'.log[Len(fsLast'.log)].op = "RemoveDir"
        /\ fsLast'.log[Len(fsLast'.log)].ret = TRUE
        /\ TerminalIndex(disk', fsLast'.name) = 0
        /\ \A i \in 1..NumDirEntries :
             NamedDirectory(disk, fsLast'.name)[i].inUse =>
               /\ \E k \in 1..(Len(fsLast'.log) - 1) :
                    /\ fsLast'.log[k].ret = TRUE
                    /\ Terminal(fsLast'.log[k].name) =
                         NamedDirectory(disk, fsLast'.name)[i].name
               /\ ~ReadFreeMap(disk', -1)[NamedDirectory(disk, fsLast'.name)[i].sector]
    ]_vars

(* C18 witness: RecurRemove("/d/") of a directory that held one file has
   removed the file, then the directory; the root has no entry d and the
   free map has the clear bits of the formatted disk. *)
C18_SlashPathRemoved ==
  /\ fsOps = 3
  /\ fsLast.op = "RecurRemove" /\ ~fsLast.fault
  /\ fsLast.name = <<"/", "d", "/">>
  /\ Len(fsLast.log) = 2
  /\ fsLast.log[1].op = "Remove" /\ fsLast.log[1].ret = TRUE
  /\ fsLast.log[2].op = "RemoveDir" /\ fsLast.log[2].ret = TRUE
  /\ FindIndex(RootTable(disk), <<"d">>) = 0
  /\ DiskNumClear(disk) = DiskNumClear(Formatted.disk)

\* The table of the directory in which a path's terminal name is looked up.
ParentDirectory(dsk, name) == ParentTable(dsk, strtok(name), 1, RootTable(dsk)).table

\* The parent directory on disk d2 is the one on d1 with one entry more, at
\* index i: a directory entry for the path's terminal name whose sector was
\* clear in the free map of d1, is marked in that of d2, and holds on d2 a
\* header of DirectoryFileSize bytes over an empty directory.
SubDirAddedAt(d1, d2, path, i) ==
  /\ i > 0
  /\ \A j \in 1..NumDirEntries :
       j # i => ParentDirectory(d2, path)[j] = ParentDirectory(d1, path)[j]
  /\ ~ParentDirectory(d1, path)[i].inUse
  /\ ParentDirectory(d2, path)[i].inUse
  /\ ParentDirectory(d2, path)[i].isdir
  /\ ParentDirectory(d2, path)[i].name = Terminal(path)
  /\ ~ReadFreeMap(d1, -1)[ParentDirectory(d2, path)[i].sector]
  /\ ReadFreeMap(d2, -1)[ParentDirectory(d2, path)[i].sector]
  /\ d2[ParentDirectory(d2, path)[i].sector].kind = "hdr"
  /\ d2[ParentDirectory(d2, path)[i].sector].hdr.numBytes = DirectoryFileSize
  /\ NamedDirectory(d2, path) = NewDirectory

\* What CreateSubDir owes for the name at path: false when it exists, and
\* when it returns true the new entry.
SubDirOutcome(d1, d2, path, ret) ==
  /\ TerminalIndex(d1, path) > 0 => ret = FALSE
  /\ ret = TRUE => SubDirAddedAt(d1, d2, path, TerminalIndex(d2, path))

(* C19: when CreateSubDir(path) returns true, the parent directory has
   exactly one entry more than before: it holds the name the path resolves
   to, with isdir = TRUE and a sector that was clear in the free map and is
   now marked; the header in that sector has DirectoryFileSize bytes and the
   directory stored in its data sector has no entry in use.  When the name
   exists already, as a file or as a directory, CreateSubDir returns
   false. *)
C19_CreateSubDirEntry ==
  [][FsDone("CreateSubDir") =>
        /\ ~fsLast'.fault
        /\ SubDirOutcome(disk, disk', Resolved(disk, fsLast'.name), fsLast'.ret)
    ]_vars

(* C19 witness: a sub-directory has been created inside a sub-directory,
   and its table is empty. *)
C19_NestedSubDirCreated ==
  /\ fsLast.op = "CreateSubDir" /\ ~fsLast.fault /\ fsLast.ret = TRUE
  /\ fsLast.name = <<"/", "d", "/", "a">>
  /\ FindDir(RootTable(disk), <<"d">>) >= 0
  /\ TerminalIndex(disk, fsLast.name) > 0
  /\ TerminalEntry(disk, fsLast.name).isdir
  /\ NamedDirectory(disk, fsLast.name) = NewDirectory

(* C20: Open returns as id the header sector that the directory records
   for the opened file, and a Read, Write or Close that follows a sequence
   of Open calls (no Close since the last Open) and is given an id that
   Open returned acts on the file whose header sector is that id. *)
C20_IdNamesFile ==
  [][/\ (FsDone("Open") /\ ~fsLast'.fault) =>
          /\ TerminalIndex(disk, Resolved(disk, fsLast'.name)) > 0
          /\ fsLast'.ret = TerminalEntry(disk, Resolved(disk, fsLast'.name)).sector
     /\ ((FsDone("Read") \/ FsDone("Write") \/ FsDone("Close")) /\ openFile >= 0) =>
          /\ ~fsLast'.fault
          /\ fsLast'.ret = fsLast'.id
    ]_vars

(* C20 witness: a Write given the id of the file opened last has acted on
   that file. *)
C20_WriteToLastOpened ==
  /\ fsLast.op = "Write" /\ ~fsLast.fault
  /\ fsLast.id = openFile
  /\ fsLast.ret = fsLast.id

\* Path resolution as the claim words it: from the directory whose file is
\* `file`, descend through each token that names a sub-directory; k is the
\* index of the first token that names none (Len(tokens) + 1 when every
\* token names one), file the header of the last directory reached.
RECURSIVE Descend(_, _, _, _)
Descend(dsk, tokens, k, file) ==
  IF k > Len(tokens)
    THEN [k |-> k, file |-> file]
    ELSE LET s == FindDir(DirectoryFetchFrom(dsk, file, -1).table, tokens[k])
         IN IF s < 0
              THEN [k |-> k, file |-> file]
              ELSE Descend(dsk, tokens, k + 1, FetchFrom(dsk, s, -1))

\* The data sectors of the directories that can be reached from the
\* directory whose file is `file`, that directory included.
RECURSIVE LiveDirSectors(_, _, _)
LiveDirSectors(dsk, file, depth) ==
  LET table == DirectoryFetchFrom(dsk, file, -1).table
      subs == {i \in 1..NumDirEntries :
                 table[i].inUse /\ table[i].isdir /\ table[i].sector \in Sectors}
  IN IF depth > NumSectors \/ DataSector(file, 0, -1) \notin Sectors
       THEN {}
       ELSE {DataSector(file, 0, -1)} \cup
            UNION {LiveDirSectors(dsk, FetchFrom(dsk, table[i].sector, -1), depth + 1) :
                     i \in subs}

\* Between tables t1 and t2 only the entry of `token` differs: it is new in
\* t2 (added) or no longer in use in t2 (removed).
OnlyEntryChanged(t1, t2, token, added) ==
  LET i == IF added THEN FindIndex(t2, token) ELSE FindIndex(t1, token)
  IN /\ i > 0
     /\ \A j \in 1..NumDirEntries : j # i => t2[j] = t1[j]
     /\ IF added THEN ~t1[i].inUse /\ FindIndex(t1, token) = 0
                 ELSE ~t2[i].inUse /\ FindIndex(t2, token) = 0

\* What a mutation of the path with these tokens did between d1 and d2, r
\* being where resolution ended on d1.
MutatedOnlyLast(d1, d2, tokens, r, ret, added) ==
  /\ \A s \in LiveDirSectors(d1, directoryFile, 0) :
       s # DataSector(r.file, 0, -1) => d2[s] = d1[s]
  /\ ret = TRUE =>
       /\ r.k <= Len(tokens)
       /\ OnlyEntryChanged(DirectoryFetchFrom(d1, r.file, -1).table,
                           DirectoryFetchFrom(d2, r.file, -1).table, tokens[r.k], added)

(* C21: path resolution starts at the root and descends through each
   leading token that names a sub-directory of the directory reached so
   far; the first token that names none is the terminal name.  A Create,
   CreateSubDir or Remove leaves every directory but the last one reached
   as it was (the root and the ancestors included, unless the root is the
   last one reached), and when it returns true the last directory reached
   differs in the entry of the terminal name only: added by Create and
   CreateSubDir, no longer in use after Remove. *)
C21_MutationInLastDirectory ==
  [][(FsDone("Create") \/ FsDone("CreateSubDir") \/ FsDone("Remove")) =>
        MutatedOnlyLast(disk, disk', strtok(fsLast'.name),
                        Descend(disk, strtok(fsLast'.name), 1, directoryFile),
                        fsLast'.ret, fsLast'.op # "Remove")
    ]_vars

(* C21 witness: a file has been removed from a sub-directory of the root:
   the root still records the sub-directory and the sub-directory no longer
   holds the name. *)
C21_RemovedFromSubDirectory ==
  /\ fsLast.op = "Remove" /\ ~fsLast.fault /\ fsLast.ret = TRUE
  /\ fsLast.name = <<"/", "d", "/", "a">>
  /\ FindDir(RootTable(disk), <<"d">>) >= 0
  /\ Descend(disk, strtok(fsLast.name), 1, directoryFile).k = 2
  /\ FindIndex(DirectoryFetchFrom(disk,
                 Descend(disk, strtok(fsLast.name), 1, directoryFile).file, -1).table,
               <<"a">>) = 0

(* C22: in every reachable state, after any sequence of Load calls
   (successful or failing) and destructions of address spaces (also of one
   whose Load failed), FreeFrame is the number of FrameTable entries marked
   free and lies within 0..NumPhysPages. *)
C22_FreeFrameCounts ==
  /\ FreeFrame = FreeCount(FrameTable)
  /\ FreeFrame \in 0..NumPhysPages

(* C22 witness: two address spaces were loaded and one of them destroyed,
   every Load within the free frames: FreeFrame counts the free frames. *)
C22_LoadedAndDestroyed ==
  /\ memLast.op = "Destroy"
  /\ loadCalls = 2
  /\ \E s \in Spaces : asState[s] = "loaded" /\ numPages[s] = Cardinality(claimed[s])
  /\ FreeFrame = FreeCount(FrameTable)
  /\ FreeFrame \in 1..(NumPhysPages - 1)

(***************************************************************************)
(* Claims about the loading of the segments (SpecLoad).  memLast'.h is the *)
(* NOFF header the Load step read.  A Load counts as successful when it    *)
(* returned TRUE on an image that fits the free frames.                    *)
(***************************************************************************)
LoadSucceeded ==
  /\ LoadStep
  /\ memLast'.ret = "TRUE"
  /\ numPages'[memLast'.s] <= FreeFrame

\* The segments Load copies from the file.
FileSegments(h) == {h.code, h.initData, h.readonlyData}

\* The physical address Translate gives for a read of vaddr (-1: none).
PhysOf(pt, np, vaddr) ==
  IF Translate(pt, np, vaddr, FALSE).exc = "NoException" /\ ~Translate(pt, np, vaddr, FALSE).assertFail
    THEN Translate(pt, np, vaddr, FALSE).paddr
    ELSE -1

\* Every byte of the segment is in memory where Translate places its address.
SegmentInPlace(mem, pt, np, e, seg) ==
  \A k \in 0..(seg.size - 1) :
    /\ PhysOf(pt, np, seg.virtualAddr + k) \in DOMAIN mem
    /\ mem[PhysOf(pt, np, seg.virtualAddr + k)] = FileByte(e, seg.inFileAddr + k)

(* C23: after a successful Load, for every non-empty segment (code,
   initData, readonlyData) and every k < segment.size, the byte of main
   memory at the physical address that Translate gives for
   segment.virtualAddr + k is the executable's byte at
   segment.inFileAddr + k, also when the segment lies on several pages
   mapped to frames that are not adjacent, or starts inside a page. *)
C23_SegmentBytesInPlace ==
  [][LoadSucceeded =>
       \A seg \in FileSegments(memLast'.h) :
         SegmentInPlace(mainMemory', pageTable'[memLast'.s], numPages'[memLast'.s],
                        memLast'.s, seg)
    ]_vars

(* C23 witness: an image whose initialised data starts inside page 0 and
   ends on page 1 was loaded into two adjacent frames while address space 2
   holds a frame, and every byte of its segments is in place. *)
C23_AdjacentFramesLoaded ==
  /\ memLast.op = "Load" /\ memLast.ret = "TRUE"
  /\ asState[2] = "loaded"
  /\ memLast.h.initData.virtualAddr % PageSize # 0
  /\ memLast.h.initData.size = PageSize
  /\ numPages[memLast.s] = 2
  /\ pageTable[memLast.s][2].physicalPage = pageTable[memLast.s][1].physicalPage + 1
  /\ \A seg \in FileSegments(memLast.h) :
       SegmentInPlace(mainMemory, pageTable[memLast.s], numPages[memLast.s], memLast.s, seg)

\* The reads Load issues for the image of header h (lines 213-215, 239-241,
\* 255-257, 299-301), each as the virtual address it translates and the
\* number of bytes it asks for.
RECURSIVE ChunkReads(_, _)
ChunkReads(insertBase, remainSize) ==
  IF remainSize <= 0 THEN {}
  ELSE {[vaddr |-> insertBase, numBytes |-> Min(remainSize, PageSize)]} \cup
       ChunkReads(insertBase + Min(remainSize, PageSize),
                  remainSize - Min(remainSize, PageSize))

ReadsOf(h) ==
  ChunkReads(h.code.virtualAddr, h.code.size)
    \cup (IF h.initData.size > 0
            THEN {[vaddr |-> h.initData.virtualAddr, numBytes |-> h.initData.size]}
            ELSE {})
    \cup ChunkReads(h.initData.virtualAddr, h.initData.size)
    \cup ChunkReads(h.readonlyData.virtualAddr, h.readonlyData.size)

\* The read stays inside the frame to which the page table maps its address.
InOneOwnFrame(pt, np, own, rd) ==
  /\ PhysOf(pt, np, rd.vaddr) >= 0
  /\ (PhysOf(pt, np, rd.vaddr) \div PageSize) \in own
  /\ (PhysOf(pt, np, rd.vaddr) % PageSize) + rd.numBytes <= PageSize

(* C24: Load transfers every segment one page at a time and never in one
   bulk read: each read it issues writes only bytes that lie inside a single
   physical frame mapped by the page table of the address space being
   loaded, so the memory of every frame that this Load did not take (a frame
   of another live address space, or a free frame) is after the Load what it
   was before. *)
C24_ReadsStayInOwnFrames ==
  [][LoadSucceeded =>
       /\ \A rd \in ReadsOf(memLast'.h) :
            InOneOwnFrame(pageTable'[memLast'.s], numPages'[memLast'.s],
                          claimed'[memLast'.s], rd)
       /\ \A a \in DOMAIN mainMemory :
            (a \div PageSize) \notin claimed'[memLast'.s] => mainMemory'[a] = mainMemory[a]
    ]_vars

(* C24 witness: a code segment of two pages was loaded into the frames on
   both sides of a frame of address space 2, whose bytes are what they
   were. *)
C24_LoadedAroundForeignFrame ==
  /\ memLast.op = "Load" /\ memLast.ret = "TRUE"
  /\ memLast.h.code.size > PageSize
  /\ claimed[memLast.s] = {0, 2}
  /\ claimed[2] = {1}
  /\ \A rd \in ReadsOf(memLast.h) :
       InOneOwnFrame(pageTable[memLast.s], numPages[memLast.s], claimed[memLast.s], rd)
  /\ mainMemory[PageSize] = FileByte(2, NoffHeaderSize)
  /\ mainMemory[PageSize + 1] = 0

\* The virtual pages that hold bytes of the segment.
PagesOf(seg) == {(seg.virtualAddr + k) \div PageSize : k \in 0..(seg.size - 1)}

(* C25: after a successful Load, every virtual page that holds bytes of the
   code segment or of the read-only data segment has readOnly = TRUE and
   every page that holds bytes of the initialised-data segment has
   readOnly = FALSE, for any layout of the segments in the NOFF header,
   also when the last page of the code holds the start of the initialised
   data. *)
C25_ReadOnlyFollowsSegment ==
  [][LoadSucceeded =>
       /\ \A vpn \in PagesOf(memLast'.h.code) \cup PagesOf(memLast'.h.readonlyData) :
            pageTable'[memLast'.s][vpn + 1].readOnly
       /\ \A vpn \in PagesOf(memLast'.h.initData) :
            ~pageTable'[memLast'.s][vpn + 1].readOnly
    ]_vars

(* C25 witness: an image with a page of code and a page of initialised data
   was loaded: the code's page is readOnly, the data's page is not. *)
C25_SeparatePagesFlagged ==
  /\ memLast.op = "Load" /\ memLast.ret = "TRUE"
  /\ memLast.h.code.size = PageSize
  /\ memLast.h.initData.size > 0
  /\ pageTable[memLast.s][1].readOnly
  /\ ~pageTable[memLast.s][2].readOnly

(***************************************************************************)
(* Claims about the three ready queues as a whole (SpecSched).             *)
(***************************************************************************)
\* The threads of a queue.
Members(list) == {list[k] : k \in 1..Len(list)}

(* C26: in every reachable state, after any sequence of PutToReady, Aging
   and ScheduleNext, every thread in L1 has priority >= 100, every thread in
   L2 has 50 <= priority < 100, every thread in L3 has priority < 50, and
   every queued thread has status READY. *)
C26_QueueBands ==
  /\ \A t \in Members(L1) : thr[t].priority >= L1Floor
  /\ \A t \in Members(L2) : thr[t].priority >= L2Floor /\ thr[t].priority < L1Floor
  /\ \A t \in Members(L3) : thr[t].priority < L2Floor
  /\ \A t \in Members(L1) \cup Members(L2) \cup Members(L3) : thr[t].status = "READY"

(* C26 witness: the queues at the lowest priority of each upper band: L1
   holds a thread that an Aging call has raised to exactly 100, L2 one that
   it has raised to exactly 50. *)
C26_BandFloorsQueued ==
  /\ \E t \in Members(L1) : thr[t].priority = L1Floor
  /\ \E u \in Members(L2) : thr[u].priority = L2Floor

\* How often thread t occurs in a queue.
Occurrences(list, t) == Cardinality({k \in 1..Len(list) : list[k] = t})

(* C27: in every reachable state a thread appears at most once across L1,
   L2 and L3 taken together: a thread that Aging promotes is in exactly one
   queue when Aging returns, and the thread ScheduleNext returned is in no
   queue. *)
C27_QueuedAtMostOnce ==
  /\ \A t \in Threads :
       Occurrences(L1, t) + Occurrences(L2, t) + Occurrences(L3, t) <= 1
  /\ nextThread # NONE => ~Queued(nextThread)

(* C27 witness: ScheduleNext has returned a thread that an Aging call had
   moved from L2 to L1 while a thread it had moved from L3 waits in L2: each
   of the waiting threads is in one queue. *)
C27_PromotedThenScheduled ==
  /\ nextThread # NONE
  /\ thr[nextThread].priority = L1Floor
  /\ \E u \in Members(L2) : thr[u].priority = L2Floor /\ ~InList(L3, u)

(***************************************************************************)
(* Claims about the order within L1 and L2 (SpecAge).                      *)
(***************************************************************************)
(* C28: in every reachable state, after any sequence of PutToReady,
   ScheduleNext and Aging (also Aging calls that raise the priority of an L2
   thread that stays in L2), the front of L2 has the maximum priority among
   the threads in L2, so that ScheduleNext with L1 empty returns an L2
   thread of the highest priority. *)
C28_L2FrontIsMaximum ==
  L2 # <<>> => \A t \in Members(L2) : thr[Head(L2)].priority >= thr[t].priority

(* C28 witness: after an Aging call L2 holds two threads, the one in front
   with the higher priority. *)
C28_TwoInL2MaximumFirst ==
  /\ schedLast.op = "Aging"
  /\ Len(L2) = 2
  /\ thr[L2[1]].priority > thr[L2[2]].priority
  /\ totalTicks >= AgingTicks

\* The front of L1 has the least remain_burst of L1.
L1FrontIsMinimum ==
  L1 # <<>> => \A t \in Members(L1) : thr[Head(L1)].remain_burst <= thr[t].remain_burst

\* Among the threads of L1 with remain_burst 0, a thread of higher priority
\* is ahead of one of lower priority.
L1TiesByPriority ==
  \A i, j \in 1..Len(L1) :
    (i < j /\ thr[L1[i]].remain_burst = 0 /\ thr[L1[j]].remain_burst = 0)
      => thr[L1[i]].priority >= thr[L1[j]].priority

(* C29: in every reachable state, after any sequence of PutToReady,
   ScheduleNext and Aging (also promotions from L2 into L1), the front of L1
   has the minimum remain_burst among the threads in L1, and among the L1
   threads whose remain_burst is 0 the one with the higher priority is
   ahead. *)
C29_L1Order == L1FrontIsMinimum /\ L1TiesByPriority

(* C29 witness: after an Aging call that promoted a thread from L2, L1 holds
   two threads of remain_burst 0, the one of higher priority in front. *)
C29_PromotedBehindHigher ==
  /\ schedLast.op = "Aging"
  /\ Len(L1) = 2
  /\ thr[L1[1]].remain_burst = 0 /\ thr[L1[2]].remain_burst = 0
  /\ thr[L1[1]].priority > thr[L1[2]].priority
  /\ thr[L1[2]].priority < L1Floor + AgingBoost

\* Thread t is ahead of thread u in the list.
Ahead(list, t, u) ==
  \E i, j \in 1..Len(list) : i < j /\ list[i] = t /\ list[j] = u

(* C30: an Aging call leaves unchanged the priority, the insert_ready_time,
   the queue membership and the relative order within their queue of all
   threads whose waited time is below 1500 ticks, whatever happens to the
   other threads in the same call. *)
C30_AgingLeavesFreshThreads ==
  [][AgingDone =>
        \A t \in Threads :
          Waited(t) < AgingTicks =>
            /\ thr'[t].priority = thr[t].priority
            /\ thr'[t].insert_ready_time = thr[t].insert_ready_time
            /\ QueueOf(L1', L2', L3', t) = QueueOf(L1, L2, L3, t)
            /\ \A u \in Threads :
                 Waited(u) < AgingTicks =>
                   /\ Ahead(L1, t, u) => Ahead(L1', t, u)
                   /\ Ahead(L2, t, u) => Ahead(L2', t, u)
                   /\ Ahead(L3, t, u) => Ahead(L3', t, u)
    ]_vars

(* C30 witness: Aging has run on L1 = <thread 1, thread 2> at the tick at
   which thread 1 (priority 110) had been put to ready, thread 2 having
   waited 1500 ticks: thread 2 has been raised from 105 to 115, and thread 1
   has kept its priority, its insert_ready_time and its place at the front
   of L1. *)
C30_FreshThreadKeepsPlace ==
  /\ schedLast.op = "Aging"
  /\ L1 = <<1, 2>>
  /\ thr[1].priority = 110 /\ thr[1].insert_ready_time = totalTicks
  /\ thr[2].priority = 115 /\ thr[2].insert_ready_time = totalTicks

(***************************************************************************)
(* Claims about the life of a thread (SpecThread).                         *)
(***************************************************************************)
\* A step that is PutToReady(t): t was in no queue and is in one.
PutToReadyDone(t) == ~Queued(t) /\ QueueOf(L1', L2', L3', t) # {}

(* C31: PutToReady(t) sets remain_burst to approx_burst and true_burst to 0
   exactly when the status of t on entry is BLOCKED; for a thread that
   arrives from any other status both fields are left as they were.  In
   every case t ends with status READY, in the one queue of the band of its
   priority. *)
C31_PutToReadyAccounting ==
  [][\A t \in Threads :
       PutToReadyDone(t) =>
         /\ IF thr[t].status = "BLOCKED"
              THEN /\ thr'[t].remain_burst = thr[t].approx_burst
                   /\ thr'[t].true_burst = 0
              ELSE /\ thr'[t].remain_burst = thr[t].remain_burst
                   /\ thr'[t].true_burst = thr[t].true_burst
         /\ thr'[t].approx_burst = thr[t].approx_burst
         /\ thr'[t].priority = thr[t].priority
         /\ thr'[t].status = "READY"
         /\ QueueOf(L1', L2', L3', t) = {WhichQueue(thr[t].priority)}
         /\ \A u \in Threads \ {t} :
              /\ thr'[u] = thr[u]
              /\ QueueOf(L1', L2', L3', u) = QueueOf(L1, L2, L3, u)
    ]_vars

(* C31 witness: a thread that blocked with remain_burst 25, approx_burst 40
   and true_burst 10 has been woken: it is READY with remain_burst 40 and
   true_burst 0, while a thread that yielded with the same accounting is
   READY and has kept it. *)
C31_WokenAndYielded ==
  \E t, u \in Threads :
    /\ thr[t].status = "READY" /\ Queued(t)
    /\ thr[t].remain_burst = 40 /\ thr[t].true_burst = 0
    /\ thr[u].status = "READY" /\ Queued(u)
    /\ thr[u].remain_burst = 25 /\ thr[u].true_burst = 10

(* C32: the toBeDestroyed slot holds at most one thread and never the
   thread that is running: whenever Run is called with finishing = TRUE the
   slot is empty (its assertion holds for every sequence of exits and
   switches), and a parked thread is deleted only by another thread, after
   the switch, whereupon the slot is empty again. *)
C32_ParkedThenReclaimed ==
  [][/\ toBeDestroyed' # NONE =>
          /\ toBeDestroyed' # currentThread'
          /\ thr'[toBeDestroyed'].status = "BLOCKED"
     /\ (toBeDestroyed' # NONE /\ toBeDestroyed' # toBeDestroyed) =>
          /\ toBeDestroyed = NONE
          /\ toBeDestroyed' = currentThread
          /\ ~halted'
     /\ \A t \in Threads :
          (thr'[t].status = "DELETED" /\ thr[t].status # "DELETED") =>
            /\ toBeDestroyed = t
            /\ currentThread # t
            /\ currentThread' = currentThread
            /\ thr[currentThread].status = "RUNNING"
            /\ toBeDestroyed' = NONE
     /\ (halted' /\ ~halted) => intLevel = "IntOn"
    ]_vars

(* C32 witness: two threads have finished one after the other and have been
   deleted by the threads that followed them; the slot is empty. *)
C32_TwoExitsReclaimed ==
  /\ Cardinality({t \in Threads : thr[t].status = "DELETED"}) = 2
  /\ toBeDestroyed = NONE
  /\ thr[currentThread].status = "RUNNING"
  /\ ~halted

(* C33: every entry point of the scheduler (PutToReady, ScheduleNext, Run,
   Aging and CheckPreempt) asserts that interrupts are disabled, so that
   none of them reads or modifies the ready queues when it is called with
   interrupts enabled: with interrupts enabled no step changes a queue or a
   priority, and none delivers a result computed from the queues. *)
C33_EntryPointsAssertIntOff ==
  [][intLevel = "IntOn" =>
       /\ UNCHANGED <<L1, L2, L3, nextThread>>
       /\ \A t \in Threads : thr'[t].priority = thr[t].priority
       /\ schedLast' # schedLast => schedLast'.op \notin {"Aging", "CheckPreempt"}
    ]_vars

(* C33 witness: ScheduleNext, PutToReady or Run was called with interrupts
   enabled while a thread was ready: the kernel has stopped at the
   assertion and the queues are as they were. *)
C33_AssertionStopsKernel ==
  /\ halted
  /\ intLevel = "IntOn"
  /\ L1 # <<>>
  /\ nextThread = NONE

\* The band of the current thread, and the bands above it in which a thread
\* is waiting.
CurrentBand == WhichQueue(thr[currentThread].priority)

HigherWaiting ==
  \/ CurrentBand >= 2 /\ L1 # <<>>
  \/ CurrentBand = 3 /\ L2 # <<>>

(* C39: whenever a ready thread waits in a queue of strictly higher level
   than the band of the current thread (L1 while the current thread is in
   the L2 or L3 band, L2 while it is in the L3 band), CheckPreempt returns
   TRUE, so that the tick handler never lets a thread of a lower level keep
   the CPU over a waiting thread of a higher level. *)
C39_HigherLevelPreempts ==
  [][(CheckPreemptDone /\ HigherWaiting) => schedLast'.ret = TRUE]_vars

(* C39 witness: CheckPreempt has returned TRUE to a running thread of the L2
   band while a thread waits in L1. *)
C39_L2YieldsToL1 ==
  /\ schedLast.op = "CheckPreempt"
  /\ schedLast.ret = TRUE
  /\ thr[currentThread].status = "RUNNING"
  /\ CurrentBand = 2
  /\ L1 # <<>>

(***************************************************************************)
(* Claims about waiting threads under a timer that keeps ticking           *)
(* (SpecStarve).                                                           *)
(***************************************************************************)
\* Thread t waits in L1 with a priority of the L1 band.
InL1Band(t) == InList(L1, t) /\ thr[t].priority >= L1Floor

(* C38: Aging keeps a waiting thread from staying in a low queue for ever:
   if Aging keeps being invoked as ticks advance, a thread that stays in the
   ready queues without being dispatched has, in the end, priority >= 100
   and is in L1, whatever the priority it started with. *)
C38_WaitingThreadReachesL1 ==
  \A t \in Threads :
    (Queued(t) /\ totalTicks = 0) ~> InL1Band(t)

(* C38 witness: the thread that was put to ready with priority 0 waits in L1
   with priority 100. *)
C38_FromZeroToL1 ==
  /\ \E t \in Threads : InL1Band(t) /\ thr[t].priority = L1Floor /\ Band(t) = 3
  /\ totalTicks >= 10 * AgingTicks

\* The capacity in bytes of one entry of a header of numBytes bytes: a
\* child's capacity at an indirect level, one sector at the leaf level.
EntryBytes(numBytes) ==
  IF numBytes > bytes_in_level3 THEN bytes_in_level3
  ELSE IF numBytes > bytes_in_level2 THEN bytes_in_level2
  ELSE IF numBytes > bytes_in_level1 THEN bytes_in_level1
  ELSE SectorSize

\* The entries of the leaf headers reachable from hdr, in file order, the
\* child headers being read from dsk.
RECURSIVE LeafEntries(_, _)
RECURSIVE ChildLeafEntries(_, _, _)
ChildLeafEntries(dsk, hdr, idx) ==
  IF idx * EntryBytes(hdr.numBytes) >= hdr.numBytes
    THEN <<>>
    ELSE LeafEntries(dsk, dsk[hdr.dataSectors[idx + 1]].hdr)
         \o ChildLeafEntries(dsk, hdr, idx + 1)

LeafEntries(dsk, hdr) ==
  IF hdr.numBytes > bytes_in_level1
    THEN ChildLeafEntries(dsk, hdr, 0)
    ELSE [i \in 1..divRoundUp(hdr.numBytes, SectorSize) |-> hdr.dataSectors[i]]

\* The leaf data sectors among them: an entry that was never assigned names
\* no sector.
LeafDataSectors(dsk, hdr) == SelectSeq(LeafEntries(dsk, hdr), LAMBDA s : s \in Sectors)

\* The leaf data sectors of the result r of Allocate(before, .., n) are as
\* many as n bytes need, distinct, clear before and set after.
LeavesAllocated(before, r, n) ==
  LET leaves == LeafDataSectors(r.disk, r.hdr)
  IN /\ Len(leaves) = divRoundUp(n, SectorSize)
     /\ \A i, j \in 1..Len(leaves) : i # j => leaves[i] # leaves[j]
     /\ \A i \in 1..Len(leaves) : ~before[leaves[i]] /\ r.map[leaves[i]]

(* C34: when the Allocate(freeMap, n) that Create calls returns true, the
   leaf data sectors reachable from the header it filled are pairwise
   distinct, were clear in the map before the call and are set after it,
   and number exactly ceil(n / SectorSize), at every indirection level. *)
C34_LeafSectorsAllocated ==
  [][(/\ FsDone("Create") /\ Sound(disk)
      /\ ReachesAllocate(disk, fsLast'.name)
      /\ ~Allocate(AllocateInput(disk), disk, fsLast'.arg).fault
      /\ Allocate(AllocateInput(disk), disk, fsLast'.arg).ret) =>
        LeavesAllocated(AllocateInput(disk),
                        Allocate(AllocateInput(disk), disk, fsLast'.arg), fsLast'.arg)
    ]_vars

(* C34 witness: Create has made a file of bytes_in_level1 + 1 bytes whose
   Allocate found room for every sector: a full child and a child of one
   byte, three distinct leaf data sectors, all marked in the map on disk. *)
C34_IndirectLeavesAllocated ==
  /\ fsLast.op = "Create" /\ ~fsLast.fault /\ fsLast.ret = TRUE
  /\ fsLast.arg = bytes_in_level1 + 1
  /\ Sound(disk)
  /\ LET hdr == disk[TerminalEntry(disk, fsLast.name).sector].hdr
         leaves == LeafDataSectors(disk, hdr)
     IN /\ hdr.numBytes = fsLast.arg
        /\ Len(leaves) = divRoundUp(fsLast.arg, SectorSize)
        /\ \A i, j \in 1..Len(leaves) : i # j => leaves[i] # leaves[j]
        /\ \A i \in 1..Len(leaves) : ReadFreeMap(disk, -1)[leaves[i]]

\* The sectors of the file whose header is in sector s: the header, the
\* child headers below it and the leaf data sectors.
RECURSIVE FileSectors(_, _)
FileSectors(dsk, s) ==
  LET hdr == dsk[s].hdr
      entries == {hdr.dataSectors[i] :
                    i \in 1..divRoundUp(hdr.numBytes, EntryBytes(hdr.numBytes))}
  IN IF hdr.numBytes > bytes_in_level1
       THEN {s} \cup UNION {FileSectors(dsk, c) : c \in entries}
       ELSE {s} \cup entries

\* The sectors reachable from the directory stored in the file of header
\* file: those of every entry in use and, for a sub-directory, those
\* reachable from it.
RECURSIVE DirectoryReach(_, _)
DirectoryReach(dsk, file) ==
  LET table == dsk[file.dataSectors[1]].table
  IN UNION {FileSectors(dsk, table[i].sector)
              \cup (IF table[i].isdir
                      THEN DirectoryReach(dsk, dsk[table[i].sector].hdr)
                      ELSE {})
            : i \in {j \in 1..NumDirEntries : table[j].inUse}}

\* The sectors the constructor reserves: the two headers at their fixed
\* sectors and the data of the free-map file and of the root directory.
ReservedSectors ==
  {FreeMapSector, DirectorySector, freeMapFile.dataSectors[1], directoryFile.dataSectors[1]}

MapAgrees(dsk) ==
  \A s \in Sectors :
     ReadFreeMap(dsk, -1)[s] <=> s \in ReservedSectors \cup DirectoryReach(dsk, directoryFile)

(* C35: from a freshly formatted disk, after any sequence of Create,
   CreateSubDir, Remove, RemoveDir and RecurRemove (none of which stopped
   the kernel, the disk holding no unassigned word), a sector is marked in
   the free map on disk if and only if it is reserved or reachable from the
   root directory through file headers, child headers and sub-directory
   headers. *)
C35_MapAgreesWithReachable ==
  (Sound(disk) /\ ~fsLast.fault) => MapAgrees(disk)

(* C35 witness: a Remove has returned true, a file or directory is still
   reachable from the root, and the map on disk marks exactly the reserved
   and the reachable sectors. *)
C35_AgreesAfterRemove ==
  /\ fsLast.op = "Remove" /\ ~fsLast.fault /\ fsLast.ret = TRUE
  /\ Sound(disk)
  /\ DirectoryReach(disk, directoryFile) # {}
  /\ MapAgrees(disk)

\* name, as strncmp compares it, is the name of an entry in use.
NamePresent(table, name) ==
  \E i \in 1..NumDirEntries : table[i].inUse /\ table[i].name = NamePrefix(name)

TableFull(table) == \A i \in 1..NumDirEntries : table[i].inUse

NoSharedName(table) ==
  \A i, j \in 1..NumDirEntries :
     (i # j /\ table[i].inUse /\ table[j].inUse) => table[i].name # table[j].name

(* C36: after every Add, AddDir and Remove on one directory no two entries
   in use have the same name; Add and AddDir return false and leave the
   table as it was when the name is present (as a file or as a directory)
   or every entry is in use; Remove of a name that is not present returns
   false and leaves the table as it was. *)
C36_DirectoryNamesUnique ==
  [][(fsOps' = fsOps + 1) =>
       /\ ~fsLast'.fault
       /\ NoSharedName(RootTable(disk'))
       /\ (/\ fsLast'.op \in {"Add", "AddDir"}
           /\ (NamePresent(RootTable(disk), fsLast'.name) \/ TableFull(RootTable(disk)))) =>
            (fsLast'.ret = FALSE /\ RootTable(disk') = RootTable(disk))
       /\ (/\ fsLast'.op = "DirectoryRemove"
           /\ ~NamePresent(RootTable(disk), fsLast'.name)) =>
            (fsLast'.ret = FALSE /\ RootTable(disk') = RootTable(disk))
    ]_vars

(* C36 witness: AddDir has returned false for a name that a file of the
   directory has, while the table still had a free entry. *)
C36_AddDirOfFileNameRefused ==
  /\ fsLast.op = "AddDir" /\ fsLast.ret = FALSE
  /\ ~TableFull(RootTable(disk))
  /\ \E i \in 1..NumDirEntries :
       /\ RootTable(disk)[i].inUse /\ ~RootTable(disk)[i].isdir
       /\ RootTable(disk)[i].name = NamePrefix(fsLast.name)

(* C40: an Open system call on a path whose resolution ends at a name that
   no entry of the directory reached has does not stop the kernel: SysOpen
   returns 0, and the file system's current open file is the one it was
   before the call. *)
C40_FailedOpenReturnsZero ==
  [][(/\ FsDone("Open") /\ Sound(disk)
      /\ TerminalIndex(disk, Resolved(disk, fsLast'.name)) = 0) =>
        /\ ~fsLast'.fault
        /\ fsLast'.ret = 0
        /\ openFile' = openFile
    ]_vars

(* C40 witness: after a successful Open, an Open system call has been made
   on a path that names nothing; FileSystem::Open returns NONE for it and
   the current open file is still the one of the earlier Open. *)
C40_OpenOfAbsentPath ==
  /\ fsLast.op = "Open"
  /\ Sound(disk)
  /\ TerminalIndex(disk, Resolved(disk, fsLast.name)) = 0
  /\ ~Open(disk, fsLast.name, -1).fault
  /\ Open(disk, fsLast.name, -1).ret = -1
  /\ openFile >= 0
  /\ openFile \in opened

\* name is the path of a file whose header, with every header below it, was
\* filled completely.
NamesFile(dsk, name) ==
  /\ ParentExists(dsk, name)
  /\ TerminalIndex(dsk, name) > 0
  /\ ~TerminalEntry(dsk, name).isdir
  /\ HeaderSound(dsk, TerminalEntry(dsk, name).sector, 0)

\* The header in sector s has one level of indirection for a file of
\* bytes_in_level1 + 1 bytes: two entries, a leaf header of bytes_in_level1
\* bytes and a leaf header of 1 byte.
OneLevelFile(dsk, s) ==
  /\ dsk[s].kind = "hdr"
  /\ dsk[s].hdr.numBytes = bytes_in_level1 + 1
  /\ \A i \in 1..2 :
       /\ dsk[s].hdr.dataSectors[i] \in Sectors
       /\ dsk[dsk[s].hdr.dataSectors[i]].kind = "hdr"
  /\ dsk[dsk[s].hdr.dataSectors[1]].hdr.numBytes = bytes_in_level1
  /\ dsk[dsk[s].hdr.dataSectors[2]].hdr.numBytes = 1

\* Create(name, n) has filled a header that addresses data sectors
\* directly: besides the header's sector the call took ceil(n / SectorSize)
\* sectors, the header's entries, and wrote no child header.
DirectFile(before, after, s, n) ==
  /\ after[s].kind = "hdr"
  /\ after[s].hdr.numBytes = n
  /\ DiskNumClear(before) - DiskNumClear(after) = 1 + divRoundUp(n, SectorSize)
  /\ \A i \in 1..divRoundUp(n, SectorSize) :
       /\ after[s].hdr.dataSectors[i] \in Sectors
       /\ ~ReadFreeMap(before, -1)[after[s].hdr.dataSectors[i]]
       /\ ReadFreeMap(after, -1)[after[s].hdr.dataSectors[i]]
       /\ after[after[s].hdr.dataSectors[i]] = before[after[s].hdr.dataSectors[i]]

(* C37: the four functions select the indirection level by the same test on
   the size.  Create of n <= bytes_in_level1 bytes (bytes_in_level1
   included) fills a header whose entries are data sectors, and Create of
   bytes_in_level1 + 1 bytes one whose two entries are leaf headers of
   bytes_in_level1 bytes and of 1 byte.  On a header with
   numBytes <= bytes_in_level1 ByteToSector returns the entry
   offset / SectorSize, CountHeader returns 1 and Deallocate clears the
   entries; on a header of bytes_in_level1 + 1 bytes CountHeader returns
   the sum over the two children and Deallocate clears the data sectors of
   the children. *)
C37_LevelSelectedBySize ==
  [][(fsOps' = fsOps + 1 /\ Sound(disk) /\ ~fsLast'.fault) =>
       /\ (/\ fsLast'.op = "Create" /\ fsLast'.ret = TRUE
           /\ ReachesAllocate(disk, fsLast'.name)) =>
            IF fsLast'.arg <= bytes_in_level1
              THEN DirectFile(disk, disk', TerminalEntry(disk', fsLast'.name).sector,
                              fsLast'.arg)
              ELSE OneLevelFile(disk', TerminalEntry(disk', fsLast'.name).sector)
       /\ (fsLast'.op = "ByteToSector" /\ HeaderSound(disk, fsLast'.id, 0)) =>
            (disk[fsLast'.id].hdr.numBytes <= bytes_in_level1 =>
               fsLast'.ret = disk[fsLast'.id].hdr.dataSectors[(fsLast'.arg \div SectorSize) + 1])
       /\ (fsLast'.op = "CountHeaderSize" /\ NamesFile(disk, fsLast'.name)) =>
            fsLast'.ret =
              IF disk[TerminalEntry(disk, fsLast'.name).sector].hdr.numBytes <= bytes_in_level1
                THEN 1 ELSE 2
       /\ (/\ fsLast'.op = "Remove" /\ fsLast'.ret = TRUE
           /\ NamesFile(disk, fsLast'.name)) =>
            LET hdr == disk[TerminalEntry(disk, fsLast'.name).sector].hdr
            IN /\ Len(LeafDataSectors(disk, hdr)) = divRoundUp(hdr.numBytes, SectorSize)
               /\ \A i \in 1..Len(LeafDataSectors(disk, hdr)) :
                    /\ ReadFreeMap(disk, -1)[LeafDataSectors(disk, hdr)[i]]
                    /\ ~ReadFreeMap(disk', -1)[LeafDataSectors(disk, hdr)[i]]
    ]_vars

(* C37 witness: a file of bytes_in_level1 + 1 bytes is on the disk with one
   level of indirection, a full leaf header and a leaf header of 1 byte,
   and CountHeader, descending one level, has counted the two leaf
   headers. *)
C37_OneLevelForOneByteMore ==
  /\ fsLast.op = "CountHeaderSize" /\ ~fsLast.fault /\ fsLast.ret = 2
  /\ Sound(disk)
  /\ NamesFile(disk, fsLast.name)
  /\ OneLevelFile(disk, TerminalEntry(disk, fsLast.name).sector)

====
